---- MODULE Spec2Model ----
(***************************************************************************)
(* Model of the SLA interval and compliance computation of                 *)
(* src/src/IncidentExcelProcessor.jsx: processRows and its helpers, and    *)
(* the download (handleDownload, buildWorkbookExcelJS) that calls it; of   *)
(* the component's controls (file selection, preview, paging, debounced    *)
(* filters, clearing) with their timeouts and file reads; and of signing   *)
(* in and out (src/src/LoginPage.jsx, the routes of src/App.js).           *)
(*                                                                         *)
(* Representation of JavaScript values                                     *)
(*   - a string is a sequence of symbols; a symbol is a character, or a    *)
(*     lexeme that the code never looks into (a date literal such as       *)
(*     "01-01-2024 08:00", the word "constructor").  "" is << >>.          *)
(*   - a cell of the input sheet is a record [t, s, n]: a string           *)
(*     (t = "str", s the symbols), a whole number (t = "num", n its        *)
(*     value), a Date object (t = "date", n the instant) or undefined      *)
(*     (t = "undef").                                                      *)
(*   - a Date instant is a number of milliseconds since                    *)
(*     2024-01-01T00:00:00Z (the code only compares and subtracts instants *)
(*     and reads their local calendar fields, so the origin is free; the   *)
(*     origin is moved from 1970 to keep the values in machine range).     *)
(*   - null (no Date) is NoDate; a present Date d is Some(d).              *)
(***************************************************************************)
EXTENDS Integers, Sequences, FiniteSets, TLC

VARIABLES
    tz,          \* local timezone offset of the runtime, ms east of UTC
    rows,        \* argument of processRows: the records of the sheet
    pc,          \* position inside processRows
    keys,        \* keyNumber, keyPriority, keyState, keyOpened, keyUpdated
    idx,         \* loop index of the loop pc names
    groups,      \* the groups object: own key -> group info
    groupOrder,  \* own keys of groups in Object.entries order
    outRows,     \* outRows array
    maxUpdates,  \* maxUpdates
    headers,     \* returned headers
    data,        \* returned data
    fnIn,        \* argument of a helper function called on its own
    fnOut,       \* its result
    sheet1,      \* rows added to the 'Incident Intervals' sheet of the download
    compAOA,     \* compAOA: rows of the 'Compliance and Credit' sheet
    message,     \* the message state of the component
    run,         \* number of the current run of the download on the file
    first,       \* what the first run of the download produced
    fileName,    \* the component's state of the same name, and so on below
    fileValid,
    inputFile,
    processing,
    allHeaders,
    allRows,     \* allRows.length
    totalRowsCount,
    globalFilter,
    columnFilters,
    pageSize,
    currentPage,
    showConfirmClear,
    isFadingOut,
    timers,      \* the pending timeouts
    timerSeq,    \* the id of the last timeout
    globalFilterTimer,   \* globalFilterTimer.current
    columnFilterTimers,  \* columnFilterTimers.current
    reads,       \* the FileReader reads under way
    erp_auth,    \* localStorage holds the item 'erp_auth'
    location,    \* the path the router shows
    user,        \* LoginPage's user, pass, showError and processing
    pass,
    showError,
    signingIn,
    chosenAt     \* history: timerSeq when handleFileChange last accepted a file

procVars == <<tz, rows, pc, keys, idx, groups, groupOrder, outRows, maxUpdates, headers, data>>
fnVars == <<fnIn, fnOut>>
dlVars == <<sheet1, compAOA, message>>
runVars == <<run, first>>
uiVars ==
    <<fileName, fileValid, inputFile, processing, allHeaders, allRows, totalRowsCount,
      globalFilter, columnFilters, pageSize, currentPage, showConfirmClear,
      isFadingOut, timers, timerSeq, globalFilterTimer, columnFilterTimers, reads>>
authVars == <<erp_auth, location, user, pass, showError, signingIn>>
histVars == <<chosenAt>>
vars == <<procVars, fnVars, dlVars, runVars, uiVars, authVars, histVars>>

----------------------------------------------------------------------------
(* Cells                                                                   *)

Str(s) == [t |-> "str", s |-> s, n |-> 0]
Num(n) == [t |-> "num", s |-> << >>, n |-> n]
DateObj(ms) == [t |-> "date", s |-> << >>, n |-> ms]
Undefined == [t |-> "undef", s |-> << >>, n |-> 0]
EmptyStr == Str(<< >>)

NoDate == [ok |-> FALSE, ms |-> 0]
Some(ms) == [ok |-> TRUE, ms |-> ms]

\* JavaScript truthiness of a cell (the left operand of `x || ''`).
Truthy(c) ==
    CASE c.t = "str" -> c.s # << >>
      [] c.t = "num" -> c.n # 0
      [] c.t = "date" -> TRUE
      [] OTHER -> FALSE

\* `c || ''`
OrEmpty(c) == IF Truthy(c) THEN c ELSE EmptyStr

\* `c !== undefined && c !== null && c !== ''`
NonEmptyCell(c) == c.t # "undef" /\ c # EmptyStr

----------------------------------------------------------------------------
(* Strings                                                                 *)

\* Characters String.prototype.trim removes.
WhiteSpace == {" ", "\n", "\t"}

RECURSIVE TrimLeft(_)
TrimLeft(s) ==
    IF s # << >> /\ Head(s) \in WhiteSpace THEN TrimLeft(Tail(s)) ELSE s

RECURSIVE TrimRight(_)
TrimRight(s) ==
    IF s # << >> /\ s[Len(s)] \in WhiteSpace
    THEN TrimRight(SubSeq(s, 1, Len(s) - 1))
    ELSE s

Trim(s) == TrimRight(TrimLeft(s))

\* String.prototype.toUpperCase on the characters of the model.
UpperChar(c) ==
    CASE c = "p" -> "P"
      [] c = "a" -> "A"
      [] c = "b" -> "B"
      [] c = "x" -> "X"
      [] OTHER -> c

ToUpperCase(s) == [k \in 1..Len(s) |-> UpperChar(s[k])]

StartsWith(s, prefix) ==
    Len(s) >= Len(prefix) /\ SubSeq(s, 1, Len(prefix)) = prefix

Digits == {"0", "1", "2", "3", "4", "5", "6", "7", "8", "9"}

DigitVal(c) ==
    CASE c = "0" -> 0 [] c = "1" -> 1 [] c = "2" -> 2 [] c = "3" -> 3
      [] c = "4" -> 4 [] c = "5" -> 5 [] c = "6" -> 6 [] c = "7" -> 7
      [] c = "8" -> 8 [] c = "9" -> 9

DigitChar(d) ==
    CASE d = 0 -> "0" [] d = 1 -> "1" [] d = 2 -> "2" [] d = 3 -> "3"
      [] d = 4 -> "4" [] d = 5 -> "5" [] d = 6 -> "6" [] d = 7 -> "7"
      [] d = 8 -> "8" [] d = 9 -> "9"

\* Number.prototype.toString of a non-negative integer.
RECURSIVE NatToString(_)
NatToString(n) ==
    IF n < 10 THEN <<DigitChar(n)>>
    ELSE Append(NatToString(n \div 10), DigitChar(n % 10))

\* `.toString()` / String(x) of a cell that is a string or a whole number.
JsToString(c) ==
    CASE c.t = "str" -> c.s
      [] c.t = "num" -> NatToString(c.n)
      [] c.t = "date" -> <<"[Date]">>
      [] OTHER -> <<"undefined">>

----------------------------------------------------------------------------
(* Dates                                                                   *)

\* Days from 1970-01-01 to the civil date (year, month 1..12, day); the day
\* may lie outside the month, as the Date constructor allows.
DaysFromCivil(year, month, day) ==
    LET y == IF month <= 2 THEN year - 1 ELSE year
        era == y \div 400
        yoe == y - era * 400
        mp == IF month > 2 THEN month - 3 ELSE month + 9
        doy == (153 * mp + 2) \div 5 + day - 1
        doe == yoe * 365 + yoe \div 4 - yoe \div 100 + doy
    IN era * 146097 + doe - 719468

\* The civil date <<year, month, day>> of a day count from 1970-01-01.
CivilFromDays(days) ==
    LET z == days + 719468
        era == z \div 146097
        doe == z - era * 146097
        yoe == (doe - doe \div 1460 + doe \div 36524 - doe \div 146096) \div 365
        doy == doe - (365 * yoe + yoe \div 4 - yoe \div 100)
        mp == (5 * doy + 2) \div 153
        d == doy - (153 * mp + 2) \div 5 + 1
        m == IF mp < 10 THEN mp + 3 ELSE mp - 9
        y == yoe + era * 400 + (IF m <= 2 THEN 1 ELSE 0)
    IN <<y, m, d>>

\* Origin of the model's instants: 2024-01-01, in days from 1970-01-01.
OriginDays == DaysFromCivil(2024, 1, 1)

DayMs == 86400 * 1000

\* new Date(year, monthIndex, day, hour, minute, second): local wall-clock
\* fields to an instant; fields out of range carry over.
NewDateLocal(zone, year, monthIndex, day, hour, minute, second) ==
    LET y == year + (monthIndex \div 12)
        m == (monthIndex % 12) + 1
        localDays == DaysFromCivil(y, m, day) - OriginDays
    IN localDays * DayMs + hour * 3600000 + minute * 60000 + second * 1000 - zone

\* excelSerialToDate: new Date((serial - 25569) * 86400 * 1000).
ExcelEpochOffset == 25569

excelSerialToDate(serial) == (serial - ExcelEpochOffset - OriginDays) * DayMs

\* Result of s.match(re) for the strict day-first pattern on one lexeme:
\* the captured groups, or ok = FALSE when the lexeme does not match.
\* second = -1 stands for an absent seconds group, ampm = "" for an absent one.
NoMatch == [ok |-> FALSE, day |-> 0, month |-> 0, year |-> 0, hour |-> 0,
            minute |-> 0, second |-> -1, ampm |-> ""]

Groups(day, month, year, hour, minute, second, ampm) ==
    [ok |-> TRUE, day |-> day, month |-> month, year |-> year, hour |-> hour,
     minute |-> minute, second |-> second, ampm |-> ampm]

StrictMatch(sym) ==
    CASE sym = "01-01-2024 07:00" -> Groups(1, 1, 2024, 7, 0, -1, "")
      [] sym = "01-01-2024 08:00" -> Groups(1, 1, 2024, 8, 0, -1, "")
      [] sym = "01-01-2024 08:30" -> Groups(1, 1, 2024, 8, 30, -1, "")
      [] sym = "01-01-2024 09:00" -> Groups(1, 1, 2024, 9, 0, -1, "")
      [] sym = "1/1/24 10:00:01" -> Groups(1, 1, 24, 10, 0, 1, "")
      [] sym = "01-01-2024 10:30" -> Groups(1, 1, 2024, 10, 30, -1, "")
      [] sym = "1/1/24 6:00 PM" -> Groups(1, 1, 24, 6, 0, -1, "PM")
      [] OTHER -> NoMatch

\* Result of Date.parse(s.replace(' ', 'T')) on one lexeme: the local
\* wall-clock fields of an ISO-like date-time, or ok = FALSE for NaN.
IsoMatch(sym) ==
    CASE sym = "2024-01-01 09:30" -> Groups(1, 1, 2024, 9, 30, 0, "")
      [] OTHER -> NoMatch

\* fromMatch with the fallback parser tried before the strict pattern.
fromMatchFallbackFirst(zone, m, p) ==
    IF p.ok
    THEN Some(NewDateLocal(zone, p.year, p.month - 1, p.day, p.hour, p.minute, p.second))
    ELSE IF m.ok
         THEN LET year == IF m.year < 100 THEN m.year + 2000 ELSE m.year
                  hour == IF m.ampm \in {"PM", "pm"} /\ m.hour < 12 THEN m.hour + 12
                          ELSE IF m.ampm \in {"AM", "am"} /\ m.hour = 12 THEN 0
                          ELSE m.hour
                  second == IF m.second >= 0 THEN m.second ELSE 0
              IN Some(NewDateLocal(zone, year, m.month - 1, m.day, hour, m.minute, second))
         ELSE NoDate

\* Lines 146-167: what parseToDate makes of a string for which s.match(re)
\* gave m and Date.parse(s.replace(' ', 'T')) would give p.
fromMatch(zone, m, p) ==
    IF m.ok
    THEN LET year == IF m.year < 100 THEN m.year + 2000 ELSE m.year
             hour == IF m.ampm \in {"PM", "pm"} /\ m.hour < 12 THEN m.hour + 12
                     ELSE IF m.ampm \in {"AM", "am"} /\ m.hour = 12 THEN 0
                     ELSE m.hour
             second == IF m.second >= 0 THEN m.second ELSE 0
         IN Some(NewDateLocal(zone, year, m.month - 1, m.day, hour, m.minute, second))
    ELSE IF p.ok
         THEN Some(NewDateLocal(zone, p.year, p.month - 1, p.day, p.hour, p.minute, p.second))
         ELSE NoDate

\* parseToDate on a string.
parseString(zone, str) ==
    LET s == Trim(str)
        m == IF Len(s) = 1 THEN StrictMatch(s[1]) ELSE NoMatch
        p == IF Len(s) = 1 THEN IsoMatch(s[1]) ELSE NoMatch
    IN fromMatch(zone, m, p)

\* parseToDate(val)
parseToDate(zone, val) ==
    CASE val.t = "undef" -> NoDate
      [] val.t = "str" -> IF val.s = << >> THEN NoDate ELSE parseString(zone, val.s)
      [] val.t = "date" -> Some(val.n)
      [] val.t = "num" -> Some(excelSerialToDate(val.n))

\* formatIso(dt): the local wall-clock fields <<y, mm, dd, hh, min, ss>> the
\* string `y-mm-dd hh:min:ss` shows (milliseconds are dropped); '' is << >>.
formatIso(zone, dt) ==
    IF ~dt.ok THEN << >>
    ELSE LET loc == dt.ms + zone
             days == loc \div DayMs
             rem == loc % DayMs
             ymd == CivilFromDays(days + OriginDays)
         IN <<ymd[1], ymd[2], ymd[3], rem \div 3600000, (rem % 3600000) \div 60000,
              (rem % 60000) \div 1000>>

Abs(x) == IF x < 0 THEN -x ELSE x

\* formatInterval without the step that makes ms positive.
formatIntervalSigned(ms) ==
    LET totalSeconds == ms \div 1000
        days == totalSeconds \div 86400
        rem == totalSeconds % 86400
        hours == rem \div 3600
        rem2 == rem % 3600
    IN <<days, hours, rem2 \div 60, rem2 % 60>>

\* formatInterval(ms): <<days, hours, minutes, seconds>> of the string
\* `${days}d ${hours}h ${minutes}m ${seconds}s`.
formatInterval(ms) ==
    LET a == IF ms < 0 THEN Abs(ms) ELSE ms
        totalSeconds == a \div 1000
        days == totalSeconds \div 86400
        rem == totalSeconds % 86400
        hours == rem \div 3600
        rem2 == rem % 3600
    IN <<days, hours, rem2 \div 60, rem2 % 60>>

\* getOrdinalSuffix(n)
getOrdinalSuffix(n) ==
    LET j == n % 10
        k == n % 100
    IN IF k >= 11 /\ k <= 13 THEN "th"
       ELSE IF j = 1 THEN "st"
       ELSE IF j = 2 THEN "nd"
       ELSE IF j = 3 THEN "rd"
       ELSE "th"

----------------------------------------------------------------------------
(* SLA threshold                                                           *)

\* thresholdOfLabel without the trim and the upper-casing, and with the
\* threshold of P3 taken from P2.
thresholdOfLabelRaw(label) ==
    IF StartsWith(label, <<"P", "1">>) THEN 1 * 3600 * 1000
    ELSE IF StartsWith(label, <<"P", "2">>) THEN 3 * 3600 * 1000
    ELSE IF StartsWith(label, <<"P", "3">>) THEN 3 * 3600 * 1000
    ELSE 8 * 3600 * 1000

\* priorityThresholdMs on a string that is neither empty nor a non-string.
thresholdOfLabel(label) ==
    LET p == ToUpperCase(Trim(label))
    IN IF StartsWith(p, <<"P", "1">>) THEN 1 * 3600 * 1000
       ELSE IF StartsWith(p, <<"P", "2">>) THEN 3 * 3600 * 1000
       ELSE IF StartsWith(p, <<"P", "3">>) THEN 4 * 3600 * 1000
       ELSE IF StartsWith(p, <<"P", "4">>) THEN 8 * 3600 * 1000
       ELSE IF Len(p) >= 2 /\ p[1] = "P" /\ p[2] \in Digits
            THEN LET n == DigitVal(p[2])
                 IN IF n = 1 THEN 1 * 3600 * 1000
                    ELSE IF n = 2 THEN 3 * 3600 * 1000
                    ELSE IF n = 3 THEN 4 * 3600 * 1000
                    ELSE IF n = 4 THEN 8 * 3600 * 1000
                    ELSE 8 * 3600 * 1000
            ELSE 8 * 3600 * 1000

\* priorityThresholdMs(priorityString)
priorityThresholdMs(priority) ==
    IF ~Truthy(priority) \/ priority.t # "str" THEN 8 * 3600 * 1000
    ELSE thresholdOfLabel(priority.s)

----------------------------------------------------------------------------
(* Column resolution                                                       *)

\* The characters of the header names of the model; any other name is one
\* lexeme.
HeaderText(h) ==
    CASE h = "Number" -> <<"N", "u", "m", "b", "e", "r">>
      [] h = "Priority" -> <<"P", "r", "i", "o", "r", "i", "t", "y">>
      [] h = "State" -> <<"S", "t", "a", "t", "e">>
      [] h = "Opened" -> <<"O", "p", "e", "n", "e", "d">>
      [] h = "Updated" -> <<"U", "p", "d", "a", "t", "e", "d">>
      [] h = "opened" -> <<"o", "p", "e", "n", "e", "d">>
      [] h = "Opened By" -> <<"O", "p", "e", "n", "e", "d", " ", "B", "y">>
      [] h = "Op ened" -> <<"O", "p", " ", "e", "n", "e", "d">>
      [] h = "Last UPDATED" ->
            <<"L", "a", "s", "t", " ", "U", "P", "D", "A", "T", "E", "D">>
      [] h = "Up dated on" ->
            <<"U", "p", " ", "d", "a", "t", "e", "d", " ", "o", "n">>
      [] h = "Incident Number" ->
            <<"I", "n", "c", "i", "d", "e", "n", "t", " ", "N", "u", "m", "b", "e", "r">>
      [] OTHER -> <<h>>

UpperLetters ==
    <<"A", "B", "C", "D", "E", "F", "G", "H", "I", "J", "K", "L", "M",
      "N", "O", "P", "Q", "R", "S", "T", "U", "V", "W", "X", "Y", "Z">>

LowerLetters ==
    <<"a", "b", "c", "d", "e", "f", "g", "h", "i", "j", "k", "l", "m",
      "n", "o", "p", "q", "r", "s", "t", "u", "v", "w", "x", "y", "z">>

\* String.prototype.toLowerCase on the letters.
LowerOf ==
    [c \in {UpperLetters[i] : i \in 1..Len(UpperLetters)} |->
        LowerLetters[CHOOSE i \in 1..Len(UpperLetters) : UpperLetters[i] = c]]

\* String.prototype.toLowerCase on one character.
LowerChar(c) == IF c \in DOMAIN LowerOf THEN LowerOf[c] ELSE c

\* k.toLowerCase()
KeyLower(h) == [k \in 1..Len(HeaderText(h)) |-> LowerChar(HeaderText(h)[k])]

\* k.toLowerCase().replace(/\s+/g, '')
KeyNorm(h) ==
    LET solid(c) == c \notin WhiteSpace
    IN SelectSeq(KeyLower(h), solid)

\* haystack.includes(needle)
Includes(hay, needle) ==
    \E i \in 0..(Len(hay) - Len(needle)) : SubSeq(hay, i + 1, i + Len(needle)) = needle

SetMin(S) == CHOOSE x \in S : \A y \in S : x <= y

\* normalizeKey with one loop: the first key that matches either way.
normalizeKeyOnePass(ks, target) ==
    LET hits == {k \in 1..Len(ks) :
                   \/ KeyNorm(ks[k]) = KeyNorm(target)
                   \/ Includes(KeyLower(ks[k]), KeyLower(target))}
    IN IF hits # {} THEN ks[SetMin(hits)] ELSE ""

\* normalizeKey(keys, target); "" stands for null.
normalizeKey(ks, target) ==
    LET lower == KeyNorm(target)
        targetLower == KeyLower(target)
        exact == {k \in 1..Len(ks) : KeyNorm(ks[k]) = lower}
        partial == {k \in 1..Len(ks) : Includes(KeyLower(ks[k]), targetLower)}
    IN IF exact # {} THEN ks[SetMin(exact)]
       ELSE IF partial # {} THEN ks[SetMin(partial)]
       ELSE ""

\* resolveKey that falls back to the first column of the sheet.
resolveKeyFirstColumn(ks, name) ==
    IF normalizeKey(ks, name) # "" THEN normalizeKey(ks, name) ELSE ks[1]

\* `normalizeKey(allKeys, name) || name`
resolveKey(ks, name) ==
    LET k == normalizeKey(ks, name)
    IN IF k # "" THEN k ELSE name

\* r[key]
Get(r, key) == IF key \in DOMAIN r THEN r[key] ELSE Undefined

----------------------------------------------------------------------------
(* Grouping                                                                *)

Separators == {";", ",", "\n"}

\* updCell.split(/[;,\n]+/): the pieces between maximal runs of separators
\* (an empty piece before a leading run and after a trailing run).
RECURSIVE SplitFrom(_, _, _, _)
SplitFrom(s, k, cur, acc) ==
    IF k > Len(s) THEN Append(acc, cur)
    ELSE IF s[k] \in Separators
         THEN IF k > 1 /\ s[k - 1] \in Separators
              THEN SplitFrom(s, k + 1, cur, acc)
              ELSE SplitFrom(s, k + 1, << >>, Append(acc, cur))
         ELSE SplitFrom(s, k + 1, Append(cur, s[k]), acc)

Split(s) == SplitFrom(s, 1, << >>, << >>)

\* `.map((s) => s.trim()).filter(Boolean)`, each part kept as a string value.
RECURSIVE TrimAndFilter(_)
TrimAndFilter(parts) ==
    IF parts = << >> THEN << >>
    ELSE LET p == Trim(Head(parts))
         IN IF p = << >> THEN TrimAndFilter(Tail(parts))
            ELSE <<Str(p)>> \o TrimAndFilter(Tail(parts))

\* updatedParts that keeps the blank parts of a string cell.
RECURSIVE TrimOnly(_)
TrimOnly(parts) ==
    IF parts = << >> THEN << >>
    ELSE <<Str(Trim(Head(parts)))>> \o TrimOnly(Tail(parts))

updatedPartsUnfiltered(updCell) ==
    IF ~NonEmptyCell(updCell) THEN << >>
    ELSE IF updCell.t = "str" THEN TrimOnly(Split(updCell.s))
    ELSE <<updCell>>

\* The candidates one Updated cell pushes (lines 274-284).
updatedParts(updCell) ==
    IF ~NonEmptyCell(updCell) THEN << >>
    ELSE IF updCell.t = "str" THEN TrimAndFilter(Split(updCell.s))
    ELSE <<updCell>>

\* The candidates one Opened cell pushes (lines 270-272).
openedParts(openedCell) ==
    IF NonEmptyCell(openedCell) THEN <<openedCell>> ELSE << >>

\* Properties every object inherits from Object.prototype: for these keys
\* `groups[num]` is truthy although groups has no such own property.
ObjectPrototypeKeys ==
    {<<"constructor">>, <<"toString">>, <<"valueOf">>, <<"hasOwnProperty">>,
     <<"isPrototypeOf">>, <<"propertyIsEnumerable">>, <<"toLocaleString">>,
     <<"__proto__">>}

\* `(r[keyNumber] || '').toString().trim()`
numberOf(r, ks) == Trim(JsToString(OrEmpty(Get(r, ks.number))))

\* The group object created for the first record of a key (lines 264-269).
newGroup(r, ks) ==
    [priority |-> OrEmpty(Get(r, ks.priority)),
     state |-> OrEmpty(Get(r, ks.state)),
     openedCandidates |-> << >>,
     updatedCandidates |-> << >>]

\* groupFor that fills an empty priority from a later record.
groupForFirstNonEmpty(gs, num, r, ks) ==
    IF num \in DOMAIN gs
    THEN IF gs[num].priority = EmptyStr
         THEN [gs[num] EXCEPT !.priority = OrEmpty(Get(r, ks.priority))]
         ELSE gs[num]
    ELSE newGroup(r, ks)

\* The group a record of number num is added to: groups[num], created from
\* the record when the key is new (lines 263-269).
groupFor(gs, num, r, ks) ==
    IF num \in DOMAIN gs THEN gs[num] ELSE newGroup(r, ks)

\* A property name that is a canonical array index: Object.entries lists
\* these first, in ascending numeric order.
IsIndexKey(k) ==
    /\ k # << >>
    /\ \A p \in 1..Len(k) : k[p] \in Digits
    /\ (Len(k) = 1 \/ k[1] # "0")

RECURSIVE KeyToInt(_)
KeyToInt(k) ==
    IF Len(k) = 1 THEN DigitVal(k[1])
    ELSE KeyToInt(SubSeq(k, 1, Len(k) - 1)) * 10 + DigitVal(k[Len(k)])

\* Own-key order of groups after the new key k is added.
insertKey(order, k) ==
    IF ~IsIndexKey(k) THEN Append(order, k)
    ELSE LET before == {p \in 1..Len(order) :
                          IsIndexKey(order[p]) /\ KeyToInt(order[p]) < KeyToInt(k)}
             n == Cardinality(before)
         IN SubSeq(order, 1, n) \o <<k>> \o SubSeq(order, n + 1, Len(order))

----------------------------------------------------------------------------
(* Resolution of one incident                                              *)

\* The fold of lines 291-295 over the opened candidates.
RECURSIVE openedFold(_, _, _)
openedFold(zone, cands, openedDate) ==
    IF cands = << >> THEN openedDate
    ELSE LET d == parseToDate(zone, Head(cands))
             next == IF d.ok /\ (~openedDate.ok \/ d.ms < openedDate.ms)
                     THEN d ELSE openedDate
         IN openedFold(zone, Tail(cands), next)

\* openedDateOf that keeps the first parsable candidate.
RECURSIVE openedFirst(_, _)
openedFirst(zone, cands) ==
    IF cands = << >> THEN NoDate
    ELSE IF parseToDate(zone, Head(cands)).ok THEN parseToDate(zone, Head(cands))
    ELSE openedFirst(zone, Tail(cands))

openedDateOf(zone, cands) == openedFold(zone, cands, NoDate)

\* Collation weights of String.prototype.localeCompare (root collation) on
\* the characters of the model: white space, then punctuation and other
\* lexemes, then digits, then letters; the two cases of a letter share the
\* primary weight and differ on the last level, lower case first.
Primary(c) ==
    CASE c \in WhiteSpace -> 0
      [] c \in Digits -> 10 + DigitVal(c)
      [] c \in {"a", "A"} -> 20
      [] c \in {"b", "B"} -> 21
      [] c \in {"p", "P"} -> 22
      [] c \in {"x", "X"} -> 23
      [] OTHER -> 1

Tertiary(c) == IF c \in {"A", "B", "P", "X"} THEN 1 ELSE 0

\* Sign of the first difference of two weight sequences; a proper prefix
\* sorts first.
RECURSIVE CompareWeights(_, _, _)
CompareWeights(a, b, k) ==
    IF k > Len(a) /\ k > Len(b) THEN 0
    ELSE IF k > Len(a) THEN -1
    ELSE IF k > Len(b) THEN 1
    ELSE IF a[k] < b[k] THEN -1
    ELSE IF a[k] > b[k] THEN 1
    ELSE CompareWeights(a, b, k + 1)

\* a.localeCompare(b)
localeCompare(a, b) ==
    LET p == CompareWeights([k \in 1..Len(a) |-> Primary(a[k])],
                            [k \in 1..Len(b) |-> Primary(b[k])], 1)
    IN IF p # 0 THEN p
       ELSE CompareWeights([k \in 1..Len(a) |-> Tertiary(a[k])],
                           [k \in 1..Len(b) |-> Tertiary(b[k])], 1)

\* compareUpdates that compares the raw texts of unparsed entries by their
\* code units, upper case before lower case.
compareUpdatesCodeUnit(a, b) ==
    IF a.d.ok /\ b.d.ok THEN a.d.ms - b.d.ms
    ELSE IF a.d.ok THEN -1
    ELSE IF b.d.ok THEN 1
    ELSE CompareWeights([k \in 1..Len(JsToString(a.raw)) |->
                            100 * (1 - Tertiary(JsToString(a.raw)[k]))
                            + Primary(JsToString(a.raw)[k])],
                        [k \in 1..Len(JsToString(b.raw)) |->
                            100 * (1 - Tertiary(JsToString(b.raw)[k]))
                            + Primary(JsToString(b.raw)[k])], 1)

\* The comparator of lines 299-304, on {raw, d} entries.
compareUpdates(a, b) ==
    IF a.d.ok /\ b.d.ok THEN a.d.ms - b.d.ms
    ELSE IF a.d.ok THEN -1
    ELSE IF b.d.ok THEN 1
    ELSE localeCompare(JsToString(a.raw), JsToString(b.raw))

\* Array.prototype.sort with compareUpdates: a stable sort, here by
\* insertion (x goes after every element that does not compare greater).
RECURSIVE insertSorted(_, _)
insertSorted(sorted, x) ==
    IF sorted = << >> THEN <<x>>
    ELSE IF compareUpdates(sorted[Len(sorted)], x) <= 0 THEN Append(sorted, x)
    ELSE Append(insertSorted(SubSeq(sorted, 1, Len(sorted) - 1), x), sorted[Len(sorted)])

RECURSIVE sortFrom(_, _, _)
sortFrom(arr, k, sorted) ==
    IF k > Len(arr) THEN sorted
    ELSE sortFrom(arr, k + 1, insertSorted(sorted, arr[k]))

\* parsedUpdates without the sort: the events as they were collected.
parsedUpdatesUnsorted(zone, cands) ==
    [k \in 1..Len(cands) |-> [raw |-> cands[k], d |-> parseToDate(zone, cands[k])]]

\* parsedUpdates (lines 297-304)
parsedUpdates(zone, cands) ==
    sortFrom([k \in 1..Len(cands) |-> [raw |-> cands[k], d |-> parseToDate(zone, cands[k])]],
             1, << >>)

\* newMax that keeps the width of the incident resolved last.
newMaxLast(max, len) == len

\* Line 307: `if (updatesRaw.length > maxUpdates) maxUpdates = updatesRaw.length`
newMax(max, len) == IF len > max THEN len ELSE max

\* The entry pushed on outRows for one group (lines 306-315).
resolved(zone, num, info) ==
    [number |-> num,
     priority |-> info.priority,
     state |-> info.state,
     openedDate |-> openedDateOf(zone, info.openedCandidates),
     updates |-> parsedUpdates(zone, info.updatedCandidates)]

----------------------------------------------------------------------------
(* Headers and rows                                                        *)

\* A column name: k names the column, i its slot (0 outside the slots) and
\* suf the ordinal suffix of an Updated column.
Col(k, i, suf) == [k |-> k, i |-> i, suf |-> suf]

updCol(i) == Col("Updated", i, getOrdinalSuffix(i))
intervalCol(i) == Col("Interval", i, "")
slaCol(i) == Col("Made SLA", i, "")

FixedCols == <<Col("Number", 0, ""), Col("Priority", 0, ""), Col("State", 0, ""),
               Col("Opened Date", 0, "")>>

MadeSlaCol == Col("Made SLA", 0, "")

RECURSIVE slotHeaders(_, _)
slotHeaders(i, n) ==
    IF i > n THEN << >>
    ELSE <<updCol(i), intervalCol(i), slaCol(i)>> \o slotHeaders(i + 1, n)

\* headers (lines 319-326)
buildHeaders(n) == FixedCols \o slotHeaders(1, n) \o <<MadeSlaCol>>

\* updDate / currDate of slot i (1-based): lines 340-341, 350.
currDate(r, i) ==
    IF i <= Len(r.updates) /\ r.updates[i].d.ok THEN r.updates[i].d ELSE NoDate

\* prevDate that measures every slot from the opened date.
prevDateOpened(r, i) == r.openedDate

\* prevDate of slot i (1-based): line 349.
prevDate(r, i) ==
    IF i = 1 THEN r.openedDate
    ELSE IF i - 1 <= Len(r.updates) THEN r.updates[i - 1].d
    ELSE NoDate

\* updText that shows nothing for an update event without a date.
updTextParsedOnly(zone, r, i) ==
    IF i <= Len(r.updates) /\ r.updates[i].d.ok THEN formatIso(zone, r.updates[i].d)
    ELSE << >>

\* updText of slot i: line 342.
updText(zone, r, i) ==
    IF i <= Len(r.updates) /\ r.updates[i].d.ok THEN formatIso(zone, r.updates[i].d)
    ELSE IF i <= Len(r.updates) THEN JsToString(r.updates[i].raw)
    ELSE << >>

\* slaVal with a strict comparison.
slaValStrict(diff, thrMs) == IF diff < thrMs THEN <<"Y">> ELSE <<"N">>

\* slaVal: line 355.
slaVal(diffMs, thrMs) == IF diffMs <= thrMs THEN <<"Y">> ELSE <<"N">>

\* Whether slot i is computed: line 352.
computed(r, i) == prevDate(r, i).ok /\ currDate(r, i).ok

diffMs(r, i) == currDate(r, i).ms - prevDate(r, i).ms

\* The values pushed on slaValues, in slot order.
RECURSIVE slaValuesFrom(_, _, _)
slaValuesFrom(r, i, n) ==
    IF i > n THEN << >>
    ELSE (IF computed(r, i)
          THEN <<slaVal(diffMs(r, i), priorityThresholdMs(r.priority))>>
          ELSE << >>) \o slaValuesFrom(r, i + 1, n)

\* madeSla with the tests in the other order: any 'Y' makes the row 'Y'.
madeSlaAnyPass(slaValues) ==
    IF Len(slaValues) = 0 THEN << >>
    ELSE IF \E k \in 1..Len(slaValues) : slaValues[k] = <<"Y">> THEN <<"Y">>
    ELSE <<"N">>

\* row['Made SLA']: lines 364-372.
madeSla(slaValues) ==
    IF Len(slaValues) = 0 THEN << >>
    ELSE IF \A k \in 1..Len(slaValues) : slaValues[k] = <<"Y">> THEN <<"Y">>
    ELSE IF \E k \in 1..Len(slaValues) : slaValues[k] = <<"N">> THEN <<"N">>
    ELSE << >>

\* The row object built for r (lines 329-374): column name -> value.
buildRow(zone, r, n) ==
    LET thrMs == priorityThresholdMs(r.priority)
        cols == {FixedCols[k] : k \in 1..4}
                \cup {updCol(i) : i \in 1..n}
                \cup {intervalCol(i) : i \in 1..n}
                \cup {slaCol(i) : i \in 1..n}
                \cup {MadeSlaCol}
    IN [c \in cols |->
          CASE c.k = "Number" -> r.number
            [] c.k = "Priority" -> r.priority
            [] c.k = "State" -> r.state
            [] c.k = "Opened Date" -> formatIso(zone, r.openedDate)
            [] c.k = "Updated" -> updText(zone, r, c.i)
            [] c.k = "Interval" ->
                 IF computed(r, c.i) THEN formatInterval(diffMs(r, c.i)) ELSE << >>
            [] c.k = "Made SLA" /\ c.i > 0 ->
                 IF computed(r, c.i) THEN slaVal(diffMs(r, c.i), thrMs) ELSE << >>
            [] OTHER -> madeSla(slaValuesFrom(r, 1, n))]

----------------------------------------------------------------------------
(* The workbook of the download: buildWorkbookExcelJS                      *)

\* The value headers.map writes for the column c of a row (lines 437-441):
\* null for an empty value, the value itself otherwise.
rowVal(r, c) ==
    LET v == r[c]
        empty == IF c.k \in {"Priority", "State"} THEN v = EmptyStr ELSE v = << >>
    IN [null |-> empty, v |-> v]

\* The rows added to the first sheet (lines 427, 436-443): the header row,
\* then the values of every row in header order.
detailRows(hdrs, rws) ==
    <<hdrs>> \o [j \in 1..Len(rws) |-> [k \in 1..Len(hdrs) |-> rowVal(rws[j], hdrs[k])]]

\* priorities (line 522)
priorities ==
    << <<"P", "1", " ", "-", " ", "Critical">>,
       <<"P", "2", " ", "-", " ", "High">>,
       <<"P", "3", " ", "-", " ", "Medium">>,
       <<"P", "4", " ", "-", " ", "Low">> >>

\* pp.split(' ')[0]
FirstWord(s) ==
    LET spaces == {k \in 1..Len(s) : s[k] = " "}
    IN IF spaces = {} THEN s ELSE SubSeq(s, 1, SetMin(spaces) - 1)

\* bucketOf that tests the priority text as it stands, without the trim.
bucketOfUntrimmed(r) ==
    LET pr == JsToString(OrEmpty(r[Col("Priority", 0, "")]))
        hits == {k \in 1..Len(priorities) :
                   StartsWith(ToUpperCase(pr), ToUpperCase(FirstWord(priorities[k])))}
    IN IF hits = {} THEN 0 ELSE SetMin(hits)

\* Lines 527-530: the index in priorities of the key found for the row r,
\* 0 when find returns undefined.
bucketOf(r) ==
    LET pr == Trim(JsToString(OrEmpty(r[Col("Priority", 0, "")])))
        hits == {k \in 1..Len(priorities) :
                   StartsWith(ToUpperCase(pr), ToUpperCase(FirstWord(priorities[k])))}
    IN IF hits = {} THEN 0 ELSE SetMin(hits)

\* Line 533: String(r['Made SLA'] || '').trim().toUpperCase()
withinOf(r) == ToUpperCase(Trim(r[Col("Made SLA", 0, "")]))

\* Line 524
zeroCounts == [k \in 1..Len(priorities) |-> [Y |-> 0, N |-> 0, total |-> 0]]

\* The loop of lines 526-537 from row j on.
RECURSIVE countFrom(_, _, _)
countFrom(rws, j, counts) ==
    IF j > Len(rws) THEN counts
    ELSE LET key == bucketOf(rws[j])
             within == withinOf(rws[j])
         IN IF key = 0 THEN countFrom(rws, j + 1, counts)
            ELSE countFrom(rws, j + 1,
                    [counts EXCEPT
                        ![key].total = @ + 1,
                        ![key].Y = IF within = <<"Y">> THEN @ + 1 ELSE @,
                        ![key].N = IF within = <<"N">> THEN @ + 1 ELSE @])

countsByPriority(rws) == countFrom(rws, 1, zeroCounts)

\* The reduce of lines 539-547 from priority k on.
RECURSIVE totalsFrom(_, _, _)
totalsFrom(counts, k, acc) ==
    IF k > Len(priorities) THEN acc
    ELSE totalsFrom(counts, k + 1,
            [Y |-> acc.Y + counts[k].Y, N |-> acc.N + counts[k].N,
             total |-> acc.total + counts[k].total])

totalsOf(counts) == totalsFrom(counts, 1, [Y |-> 0, N |-> 0, total |-> 0])

\* A percentage as the exact quotient num / den, den > 0.
Ratio(num, den) == [num |-> num, den |-> den]

\* Lines 563-567 and 581-582: 0, or (Y / totals.total) * 100 when the grand
\* total is positive.
pctNum(within, grand) ==
    IF grand > 0 THEN Ratio(within * 100, grand) ELSE Ratio(0, 1)

\* q.toFixed(1): the nearest number of tenths, the larger one on a tie, as
\* digits, a point and one digit.
toFixed1(q) ==
    LET n == (20 * q.num + q.den) \div (2 * q.den)
    IN NatToString(n \div 10) \o <<".", DigitChar(n % 10)>>

\* flagOf that never leaves the cell of P1 and P2 empty.
flagOfAlways(p, pct, grand) ==
    IF StartsWith(p, <<"P", "1">>) \/ StartsWith(p, <<"P", "2">>)
    THEN IF grand > 0 /\ pct.num < 95 * pct.den THEN <<"Y">> ELSE <<"N">>
    ELSE << >>

\* Lines 571-576
flagOf(p, pct, grand) ==
    IF (StartsWith(p, <<"P", "1">>) \/ StartsWith(p, <<"P", "2">>)) /\ grand > 0
    THEN IF pct.num < 95 * pct.den THEN <<"Y">> ELSE <<"N">>
    ELSE << >>

\* bucketRow with the percentage taken over the bucket's own total.
bucketRowOwnTotal(k, counts, totals) ==
    LET p == priorities[k]
        pct == pctNum(counts[k].Y, counts[k].total)
        pctDisplay == IF totals.total > 0 THEN toFixed1(pct) \o <<"%">> ELSE << >>
    IN <<p, counts[k].total, counts[k].Y, pctDisplay, counts[k].N,
         flagOf(p, pct, totals.total)>>

\* Lines 561-579: the row pushed for priorities[k].
bucketRow(k, counts, totals) ==
    LET p == priorities[k]
        pct == pctNum(counts[k].Y, totals.total)
        pctDisplay == IF totals.total > 0 THEN toFixed1(pct) \o <<"%">> ELSE << >>
    IN <<p, counts[k].total, counts[k].Y, pctDisplay, counts[k].N,
         flagOf(p, pct, totals.total)>>

\* totalRow without a percentage.
totalRowNoPct(totals) ==
    << <<"Total">>, totals.total, totals.Y, << >>, totals.N, << >> >>

\* Lines 581-584: the Total row.
totalRow(totals) ==
    << <<"Total">>, totals.total, totals.Y,
       toFixed1(pctNum(totals.Y, totals.total)) \o <<"%">>,
       totals.N, << >> >>

\* Lines 549-558: the title placeholder and the column titles.
compHead ==
    << << << >>, << >>, << >>, << >>, << >>, << >> >>,
       << <<"Priority/SLA">>, <<"Total Incident">>, <<"Within SLA">>,
          <<"% for Within SLA">>, <<"Exceeding SLA">>, <<"Compliance and Credit">> >> >>

\* compAOA as lines 549-584 build it from the processed rows.
complianceRows(rws) ==
    LET counts == countsByPriority(rws)
        totals == totalsOf(counts)
    IN compHead
       \o [k \in 1..Len(priorities) |-> bucketRow(k, counts, totals)]
       \o <<totalRow(totals)>>

----------------------------------------------------------------------------
(* Inputs                                                                  *)

\* Largest number of records of the sheet.
MaxRecords == 2

\* Offsets of the local time zone: UTC+05:30.
TimeZones == {19800000}

\* Column names of the sheet, in column order: Object.keys(rows[0]).
SheetHeaders == <<"Number", "Priority", "State", "Opened", "Updated">>

NumberCells ==
    {EmptyStr, Str(<<" ">>), Str(<<"A">>), Str(<<" ", "A", " ">>), Str(<<"B">>),
     Num(0), Str(<<"constructor">>)}

P1Cell == Str(<<"P", "1">>)
P2Cell == Str(<<"p", "2">>)

\* Priority, Opened and Updated cells of one record: string cells with one
\* or several date literals, blank parts and unparsable words, a numeric
\* priority, a Date cell and a spreadsheet serial (45292 is 2024-01-01).
Profiles ==
    { <<P1Cell, Str(<<"01-01-2024 08:00">>), Str(<<"01-01-2024 09:00">>)>>,
      <<P1Cell, Str(<<"01-01-2024 08:00">>),
        Str(<<"01-01-2024 08:30", ";", " ", "1/1/24 10:00:01", ",", "01-01-2024 10:30">>)>>,
      <<EmptyStr, Str(<<"01-01-2024 08:00">>),
        Str(<<"1/1/24 6:00 PM", ";", "01-01-2024 07:00">>)>>,
      <<P2Cell, Str(<<"01-01-2024 07:00">>), Str(<<"B", ";", "a", "\n">>)>>,
      <<P2Cell, EmptyStr,
        Str(<<" ", ";", "01-01-2024 10:30", ",", ",", " ", "a", " ">>)>>,
      <<Num(1), Str(<<"a">>), Num(45292)>>,
      <<P1Cell, DateObj(9000000), Str(<<"2024-01-01 09:30">>)>>,
      <<EmptyStr, EmptyStr, EmptyStr>> }

Records ==
    { [Number |-> n, Priority |-> p[1], State |-> Str(<<"Open">>),
       Opened |-> p[2], Updated |-> p[3]] : n \in NumberCells, p \in Profiles }

Inputs == UNION {[1..n -> Records] : n \in 0..MaxRecords}

DefaultKeys == [number |-> "Number", priority |-> "Priority", state |-> "State",
                opened |-> "Opened", updated |-> "Updated"]

\* The header rows of the sheets of the model, each with its columns in
\* order: the usual one, one without an Opened column, one without an
\* Updated column, one whose columns are named otherwise and one with no
\* column of the five fields.
Sheets ==
    {SheetHeaders,
     <<"Number", "Priority", "State", "Updated">>,
     <<"Number", "Priority", "State", "Opened">>,
     <<"Incident Number", "Opened By", "Op ened", "Last UPDATED">>,
     <<"Comments">>}

Range(q) == {q[k] : k \in 1..Len(q)}

\* Object.keys(r): the names of the record's columns in the order of its
\* sheet.
ObjectKeys(r) == CHOOSE hs \in Sheets : Range(hs) = DOMAIN r

----------------------------------------------------------------------------
(* The component: file selection, preview, paging, filters, clearing       *)
(*                                                                         *)
(* A File object is a record: its name, and what XLSX.read, parseWorkbook  *)
(* and processRows make of its content (they throw, or they return rows    *)
(* processed rows).  No file (files[0] undefined, inputFile null) is       *)
(* NoFile; fileName null is the empty name.  allRows is held by its        *)
(* length, the rows of a preview being PreviewRow(1), PreviewRow(2), ...   *)
(* A pending timeout is a record of timers: its id, what its callback      *)
(* does, the delay left and the values its callback closes over.  An       *)
(* asynchronous file read under way is an element of reads.                *)

MaxRows == 21
MaxTimers == 3
MaxReads == 2

Delay == 350
DefaultPageSize == 25
PageSizes == {10, 25, 50, 100}

NoFile == [some |-> FALSE, name |-> << >>, throws |-> FALSE, rows |-> 0]

Files ==
    {[some |-> TRUE, name |-> <<"a", ".", "X", "L", "S", "X">>, throws |-> FALSE,
      rows |-> MaxRows],
     [some |-> TRUE, name |-> <<"b", ".", "x", "l", "s", "x">>, throws |-> TRUE,
      rows |-> 0],
     [some |-> TRUE, name |-> <<"c", ".", "c", "s", "v">>, throws |-> FALSE,
      rows |-> MaxRows]}

\* The headers and the rows processRows returns for a file of incidents
\* without updates, by what the filters read of them.
PreviewHeaders == <<"Number", "Priority">>

PreviewRow(k) ==
    [h \in {"Number", "Priority"} |->
        IF h = "Number" THEN <<"I", "N", "C">>
        ELSE IF k % 3 = 1 THEN <<"P", "1">>
        ELSE IF k % 3 = 2 THEN <<"P", "2">>
        ELSE <<"P", "3">>]

\* What the user types into a filter box.
FilterTexts == {<< >>, <<"p", "1">>, <<"z">>}

NoFilters == [h \in {"Number", "Priority"} |-> << >>]

validateFile(file) ==
    IF ~file.some THEN FALSE
    ELSE LET fn == [k \in 1..Len(file.name) |-> LowerChar(file.name[k])]
             suffix == <<".", "x", "l", "s", "x">>
         IN /\ Len(fn) >= Len(suffix)
            /\ SubSeq(fn, Len(fn) - Len(suffix) + 1, Len(fn)) = suffix

LowerText(s) == [k \in 1..Len(s) |-> LowerChar(s[k])]

\* The rows whose cell under header h includes the text q, both in lower
\* case: String(r[h] ?? '').toLowerCase().includes(q.trim().toLowerCase()).
RowsIncluding ==
    [h \in {"Number", "Priority"} |->
        [q \in FilterTexts |->
            {k \in 1..MaxRows :
                Includes(LowerText(PreviewRow(k)[h]), LowerText(Trim(q)))}]]

filteredAndSortedRows ==
    LET gf == LowerText(Trim(globalFilter))
        byGlobal ==
            IF gf # << >>
            THEN {k \in 1..allRows :
                    \E i \in 1..Len(allHeaders) :
                        k \in RowsIncluding[allHeaders[i]][globalFilter]}
            ELSE 1..allRows
        byColumn(col) ==
            IF columnFilters[col] = << >> THEN 1..allRows
            ELSE RowsIncluding[col][columnFilters[col]]
    IN IF allRows = 0 THEN {}
       ELSE {k \in byGlobal : \A col \in DOMAIN columnFilters : k \in byColumn(col)}

totalPages ==
    LET n == Cardinality(filteredAndSortedRows)
        pages == (n + pageSize - 1) \div pageSize
    IN IF pages > 1 THEN pages ELSE 1

\* setTimeout(callback, 350): a new pending timeout with a fresh id.
setTimeout(kind, a, b) ==
    [id |-> timerSeq + 1, kind |-> kind, left |-> Delay, a |-> a, b |-> b]

\* clearTimeout(id)
clearTimeout(pending, id) == {t \in pending : t.id # id}

\* The state after the component is constructed.
Mounted ==
    /\ fileName = << >>
    /\ fileValid = FALSE
    /\ inputFile = NoFile
    /\ processing = FALSE
    /\ allHeaders = << >>
    /\ allRows = 0
    /\ totalRowsCount = 0
    /\ globalFilter = << >>
    /\ columnFilters = NoFilters
    /\ pageSize = DefaultPageSize
    /\ currentPage = 1
    /\ showConfirmClear = FALSE
    /\ isFadingOut = FALSE
    /\ timers = {}
    /\ timerSeq = 0
    /\ globalFilterTimer = 0
    /\ columnFilterTimers = [h \in {"Number", "Priority"} |-> 0]
    /\ reads = << >>

\* The state of LoginPage after it is constructed.
BlankLogin ==
    /\ user = << >>
    /\ pass = << >>
    /\ showError = FALSE
    /\ signingIn = FALSE

\* The component rendered for a signed-in user, none of its controls used.
Rendered ==
    /\ Mounted
    /\ BlankLogin
    /\ erp_auth = TRUE
    /\ location = "/"
    /\ chosenAt = 0

\* The component while the read that handleDownload started is under way.
Downloading ==
    /\ fileName = <<"a", ".", "X", "L", "S", "X">>
    /\ fileValid = TRUE
    /\ inputFile \in {f \in Files : f.name = fileName}
    /\ processing = TRUE
    /\ allHeaders = PreviewHeaders
    /\ allRows = MaxRows
    /\ totalRowsCount = MaxRows
    /\ globalFilter = << >>
    /\ columnFilters = NoFilters
    /\ pageSize = DefaultPageSize
    /\ currentPage = 1
    /\ showConfirmClear = FALSE
    /\ isFadingOut = FALSE
    /\ timers = {}
    /\ timerSeq = 0
    /\ globalFilterTimer = 0
    /\ columnFilterTimers = [h \in {"Number", "Priority"} |-> 0]
    /\ reads = <<[kind |-> "download", file |-> inputFile]>>
    /\ BlankLogin
    /\ erp_auth = TRUE
    /\ location = "/"
    /\ chosenAt = 0

----------------------------------------------------------------------------
(* processRows, step by step                                               *)

Init ==
    /\ tz \in TimeZones
    /\ rows \in Inputs
    /\ pc = "start"
    /\ keys = DefaultKeys
    /\ idx = 1
    /\ groups = << >>
    /\ groupOrder = << >>
    /\ outRows = << >>
    /\ maxUpdates = 0
    /\ headers = << >>
    /\ data = << >>
    /\ fnIn = Undefined
    /\ fnOut = -1
    /\ sheet1 = << >>
    /\ compAOA = << >>
    /\ message = "Preparing download..."
    /\ run = 1
    /\ first = << >>
    /\ Downloading

\* Lines 249-250: no rows, empty result.
ReturnEmpty ==
    /\ pc = "start"
    /\ Len(rows) = 0
    /\ pc' = "done"
    /\ headers' = << >>
    /\ data' = << >>
    /\ UNCHANGED <<tz, rows, keys, idx, groups, groupOrder, outRows, maxUpdates, fnVars, dlVars, runVars, uiVars, authVars, histVars>>

\* Lines 252-257: the columns are resolved on the keys of the first record.
ResolveKeys ==
    /\ pc = "start"
    /\ Len(rows) > 0
    /\ keys' = [number |-> resolveKey(ObjectKeys(rows[1]), "Number"),
                priority |-> resolveKey(ObjectKeys(rows[1]), "Priority"),
                state |-> resolveKey(ObjectKeys(rows[1]), "State"),
                opened |-> resolveKey(ObjectKeys(rows[1]), "Opened"),
                updated |-> resolveKey(ObjectKeys(rows[1]), "Updated")]
    /\ pc' = "group"
    /\ idx' = 1
    /\ UNCHANGED <<tz, rows, groups, groupOrder, outRows, maxUpdates, headers, data, fnVars, dlVars, runVars, uiVars, authVars, histVars>>

\* The position after the body of the grouping loop ran on rows[idx].
AfterRecord(order) ==
    IF idx < Len(rows) THEN pc' = "group" /\ idx' = idx + 1
    ELSE /\ pc' = IF order = << >> THEN "headers" ELSE "resolve"
         /\ idx' = 1

\* Line 262: a record without a number is skipped.
GroupSkip ==
    /\ pc = "group"
    /\ numberOf(rows[idx], keys) = << >>
    /\ AfterRecord(groupOrder)
    /\ UNCHANGED <<tz, rows, keys, groups, groupOrder, outRows, maxUpdates, headers, data, fnVars, dlVars, runVars, uiVars, authVars, histVars>>

\* Lines 263-284 on a number that names an inherited property of groups and
\* no own one: no group is created; a record without Opened and Updated
\* values passes, otherwise groups[num].openedCandidates (updatedCandidates)
\* is undefined and the push throws a TypeError out of processRows.
GroupInherited ==
    /\ pc = "group"
    /\ LET r == rows[idx]
           num == numberOf(r, keys)
       IN /\ num # << >>
          /\ num \notin DOMAIN groups
          /\ num \in ObjectPrototypeKeys
          /\ IF NonEmptyCell(Get(r, keys.opened)) \/ NonEmptyCell(Get(r, keys.updated))
             THEN pc' = "threw" /\ idx' = idx
             ELSE AfterRecord(groupOrder)
    /\ UNCHANGED <<tz, rows, keys, groups, groupOrder, outRows, maxUpdates, headers, data, fnVars, dlVars, runVars, uiVars, authVars, histVars>>

\* Lines 263-284: the record's candidates are added to its group, which is
\* created on the first record of the number.
GroupAccumulate ==
    /\ pc = "group"
    /\ LET r == rows[idx]
           num == numberOf(r, keys)
           base == groupFor(groups, num, r, keys)
           order == IF num \in DOMAIN groups THEN groupOrder
                    ELSE insertKey(groupOrder, num)
           info == [base EXCEPT
                      !.openedCandidates = @ \o openedParts(Get(r, keys.opened)),
                      !.updatedCandidates = @ \o updatedParts(Get(r, keys.updated))]
       IN /\ num # << >>
          /\ num \in DOMAIN groups \/ num \notin ObjectPrototypeKeys
          /\ groups' = [k \in DOMAIN groups \cup {num} |->
                          IF k = num THEN info ELSE groups[k]]
          /\ groupOrder' = order
          /\ AfterRecord(order)
    /\ UNCHANGED <<tz, rows, keys, outRows, maxUpdates, headers, data, fnVars, dlVars, runVars, uiVars, authVars, histVars>>

\* Lines 290-316: one iteration of the loop over Object.entries(groups).
ResolveIncident ==
    /\ pc = "resolve"
    /\ LET num == groupOrder[idx]
           r == resolved(tz, num, groups[num])
       IN /\ outRows' = Append(outRows, r)
          /\ maxUpdates' = newMax(maxUpdates, Len(r.updates))
    /\ IF idx < Len(groupOrder) THEN pc' = "resolve" /\ idx' = idx + 1
       ELSE pc' = "headers" /\ idx' = 1
    /\ UNCHANGED <<tz, rows, keys, groups, groupOrder, headers, data, fnVars, dlVars, runVars, uiVars, authVars, histVars>>

\* Lines 319-326.
BuildHeaders ==
    /\ pc = "headers"
    /\ headers' = buildHeaders(maxUpdates)
    /\ pc' = IF outRows = << >> THEN "done" ELSE "rows"
    /\ idx' = 1
    /\ UNCHANGED <<tz, rows, keys, groups, groupOrder, outRows, maxUpdates, data, fnVars, dlVars, runVars, uiVars, authVars, histVars>>

\* Lines 328-375: one call of the callback of outRows.map; the result is
\* returned after the last one.
BuildRow ==
    /\ pc = "rows"
    /\ data' = Append(data, buildRow(tz, outRows[idx], maxUpdates))
    /\ IF idx < Len(outRows) THEN pc' = "rows" /\ idx' = idx + 1
       ELSE pc' = "done" /\ idx' = idx
    /\ UNCHANGED <<tz, rows, keys, groups, groupOrder, outRows, maxUpdates, headers, fnVars, dlVars, runVars, uiVars, authVars, histVars>>

\* RejectEmpty that builds the workbook from the empty result.
BuildOnEmpty ==
    /\ pc = "done"
    /\ Len(headers) = 0
    /\ sheet1' = detailRows(headers, data)
    /\ compAOA' = complianceRows(data)
    /\ pc' = "downloaded"
    /\ message' = "Downloaded"
    /\ UNCHANGED <<tz, rows, keys, idx, groups, groupOrder, outRows, maxUpdates,
                   headers, data, fnVars, runVars, uiVars, authVars, histVars>>

\* handleDownload, lines 652-656: processRows returned no headers; the
\* error thrown is caught at lines 669-673 and shown as the message, and no
\* workbook is built.
RejectEmpty ==
    /\ pc = "done"
    /\ Len(headers) = 0
    /\ pc' = "failed"
    /\ message' = "Error preparing download: Processed output is empty or invalid"
    /\ UNCHANGED <<tz, rows, keys, idx, groups, groupOrder, outRows, maxUpdates,
                   headers, data, fnVars, sheet1, compAOA, runVars, uiVars, authVars, histVars>>

\* handleDownload, lines 669-673: the TypeError thrown out of processRows is
\* caught and shown as the message.
CatchError ==
    /\ pc = "threw"
    /\ pc' = "failed"
    /\ message' = "Error preparing download: TypeError"
    /\ UNCHANGED <<tz, rows, keys, idx, groups, groupOrder, outRows, maxUpdates,
                   headers, data, fnVars, sheet1, compAOA, runVars, uiVars, authVars, histVars>>

\* handleDownload, lines 658-668: buildWorkbookExcelJS(headers, outData,
\* rows) fills the two sheets and the workbook is saved.
BuildWorkbook ==
    /\ pc = "done"
    /\ Len(headers) # 0
    /\ sheet1' = detailRows(headers, data)
    /\ compAOA' = complianceRows(data)
    /\ pc' = "downloaded"
    /\ message' = "Downloaded"
    /\ UNCHANGED <<tz, rows, keys, idx, groups, groupOrder, outRows, maxUpdates,
                   headers, data, fnVars, runVars, uiVars, authVars, histVars>>

Next ==
    \/ ReturnEmpty
    \/ ResolveKeys
    \/ GroupSkip
    \/ GroupInherited
    \/ GroupAccumulate
    \/ ResolveIncident
    \/ BuildHeaders
    \/ BuildRow
    \/ RejectEmpty
    \/ CatchError
    \/ BuildWorkbook

Spec == Init /\ [][Next]_vars

----------------------------------------------------------------------------
(* The download run again on the same file, on sheets of several shapes    *)

\* Largest number of runs of the download on the file.
MaxRuns == 2

\* The cells of the column h of a sheet.
CellsOf(h) ==
    CASE h \in {"Number", "Incident Number"} ->
            {Str(<<"A">>), Str(<<"B">>), Str(<<"constructor">>)}
      [] h = "Priority" -> {P1Cell}
      [] h = "State" -> {Str(<<"Open">>)}
      [] h \in {"Opened", "Op ened"} -> {Str(<<"01-01-2024 08:00">>), Str(<<"a">>)}
      [] h \in {"Updated", "Last UPDATED"} ->
            {Str(<<"01-01-2024 09:00">>), Str(<<"01-01-2024 10:30", ";", "a">>)}
      [] OTHER -> {EmptyStr, Str(<<"a">>)}

\* The records a sheet of header row hs can hold (defval: '' gives every
\* record every column).
RecordsOfSheet(hs) ==
    LET RECURSIVE over(_)
        over(k) ==
            IF k = 0 THEN {<< >>}
            ELSE {[h \in DOMAIN r \cup {hs[k]} |-> IF h = hs[k] THEN v ELSE r[h]] :
                     r \in over(k - 1), v \in CellsOf(hs[k])}
    IN over(Len(hs))

SheetInputs ==
    UNION {UNION {[1..n -> RecordsOfSheet(hs)] : n \in 0..MaxRecords} : hs \in Sheets}

InitSheets ==
    /\ tz \in TimeZones
    /\ rows \in SheetInputs
    /\ pc = "start"
    /\ keys = DefaultKeys
    /\ idx = 1
    /\ groups = << >>
    /\ groupOrder = << >>
    /\ outRows = << >>
    /\ maxUpdates = 0
    /\ headers = << >>
    /\ data = << >>
    /\ fnIn = Undefined
    /\ fnOut = -1
    /\ sheet1 = << >>
    /\ compAOA = << >>
    /\ message = "Preparing download..."
    /\ run = 1
    /\ first = << >>
    /\ Downloading

\* The locals of processRows as a call finds them, had they been kept from
\* the call before.
staleLocals ==
    [groups |-> groups, groupOrder |-> groupOrder, outRows |-> outRows,
     maxUpdates |-> maxUpdates]

\* The locals a call of processRows starts with: lines 259, 287, 288.
freshLocals ==
    [groups |-> << >>, groupOrder |-> << >>, outRows |-> << >>, maxUpdates |-> 0]

\* handleDownload is started again on the same file (lines 640-650): the
\* file is read anew and processRows is called on its records; what the
\* run before produced is kept in first for comparison.
RunAgain ==
    /\ pc \in {"downloaded", "failed"}
    /\ run < MaxRuns
    /\ run' = run + 1
    /\ first' = IF run = 1
                THEN [headers |-> headers, data |-> data, sheet1 |-> sheet1,
                      compAOA |-> compAOA, message |-> message, pc |-> pc]
                ELSE first
    /\ pc' = "start"
    /\ message' = "Preparing download..."
    /\ keys' = DefaultKeys
    /\ idx' = 1
    /\ groups' = freshLocals.groups
    /\ groupOrder' = freshLocals.groupOrder
    /\ outRows' = freshLocals.outRows
    /\ maxUpdates' = freshLocals.maxUpdates
    /\ headers' = << >>
    /\ data' = << >>
    /\ sheet1' = << >>
    /\ compAOA' = << >>
    /\ UNCHANGED <<tz, rows, fnVars, uiVars, authVars, histVars>>

NextSheets ==
    \/ Next
    \/ RunAgain

SpecSheets == InitSheets /\ [][NextSheets]_vars

----------------------------------------------------------------------------
(* priorityThresholdMs called on its own                                   *)

\* Longest priority label.
MaxLabelLen == 3

LabelChars == {"P", "p", "1", "2", "3", "4", "5", " ", "x"}

Labels == UNION {[1..n -> LabelChars] : n \in 0..MaxLabelLen}

\* Arguments of priorityThresholdMs: a string, or what `r[key] || ''` leaves
\* of a number or a Date cell, or a missing argument.
PriorityArgs == {Str(l) : l \in Labels} \cup {Num(1), DateObj(0), Undefined}

\* No download is under way.
NoDownload ==
    /\ sheet1 = << >>
    /\ compAOA = << >>
    /\ message = ""
    /\ run = 1
    /\ first = << >>

InitThreshold ==
    /\ tz \in TimeZones
    /\ rows = << >>
    /\ pc = "idle"
    /\ keys = DefaultKeys
    /\ idx = 1
    /\ groups = << >>
    /\ groupOrder = << >>
    /\ outRows = << >>
    /\ maxUpdates = 0
    /\ headers = << >>
    /\ data = << >>
    /\ fnIn \in PriorityArgs
    /\ fnOut = -1
    /\ NoDownload
    /\ Rendered

CallThreshold ==
    /\ pc = "idle"
    /\ fnOut = -1
    /\ fnOut' = priorityThresholdMs(fnIn)
    /\ UNCHANGED <<procVars, fnIn, dlVars, runVars, uiVars, authVars, histVars>>

NextThreshold == CallThreshold

SpecThreshold == InitThreshold /\ [][NextThreshold]_vars

----------------------------------------------------------------------------
(* The download from the return of processRows on                          *)

\* Largest number of incidents of the sheet.
MaxIncidents == 6

\* Priority, Opened and Updated cells of the one record of an incident:
\* P1 within and over its hour, P2 within its three hours, P3 with an update
\* that does not parse (no verdict), P4 within, and a priority of no bucket.
IncidentKinds ==
    << <<P1Cell, Str(<<"01-01-2024 08:00">>), Str(<<"01-01-2024 09:00">>)>>,
      <<P1Cell, Str(<<"01-01-2024 08:00">>), Str(<<"01-01-2024 10:30">>)>>,
      <<Str(<<" ", "p", "2", " ", "x">>), Str(<<"01-01-2024 08:00">>),
        Str(<<"01-01-2024 10:30">>)>>,
      <<Str(<<"P", "3">>), Str(<<"01-01-2024 08:00">>), Str(<<"a">>)>>,
      <<Str(<<"P", "4">>), Str(<<"01-01-2024 08:00">>), Str(<<"01-01-2024 09:00">>)>>,
      <<Str(<<"x", "P", "1">>), Str(<<"01-01-2024 08:00">>), Str(<<"01-01-2024 09:00">>)>> >>

\* The record of the incident of number j and of the kind k.
RecordOf(j, k) ==
    [Number |-> Num(j), Priority |-> k[1], State |-> Str(<<"Open">>),
     Opened |-> k[2], Updated |-> k[3]]

\* The row processRows returns for the incident of the one record r, in a
\* sheet of incidents with one update each.
ProcessedRow(zone, r) ==
    LET info == [newGroup(r, DefaultKeys) EXCEPT
                    !.openedCandidates = openedParts(r.Opened),
                    !.updatedCandidates = updatedParts(r.Updated)]
    IN buildRow(zone, resolved(zone, numberOf(r, DefaultKeys), info), 1)

\* Every kind with the row of its incident, but for the number.
KindRows(zone) ==
    [i \in 1..Len(IncidentKinds) |->
        [kind |-> IncidentKinds[i], row |-> ProcessedRow(zone, RecordOf(1, IncidentKinds[i]))]]

\* The sheets of n incidents, each a list of kinds: the sheet lists its
\* incidents kind after kind, any number of each.
KindOrders(n) ==
    {o \in [1..n -> 1..Len(IncidentKinds)] : \A j \in 1..(n - 1) : o[j] <= o[j + 1]}

\* The state in which handleDownload has processRows' result on the sheet of
\* the incidents 1, 2, ... of the kinds ks; the locals of processRows are
\* gone.
ReturnedOn(zone, ks) ==
    /\ tz = zone
    /\ rows = [j \in 1..Len(ks) |-> RecordOf(j, ks[j].kind)]
    /\ pc = "done"
    /\ keys = DefaultKeys
    /\ idx = 1
    /\ groups = << >>
    /\ groupOrder = << >>
    /\ outRows = << >>
    /\ maxUpdates = 0
    /\ headers = IF Len(ks) = 0 THEN << >> ELSE buildHeaders(1)
    /\ data = [j \in 1..Len(ks) |->
                 [ks[j].row EXCEPT ![Col("Number", 0, "")] = NatToString(j)]]

InitCompliance ==
    /\ \E zone \in TimeZones :
          LET kinds == KindRows(zone) IN
          \E n \in 0..MaxIncidents : \E o \in KindOrders(n) :
              ReturnedOn(zone, [j \in 1..n |-> kinds[o[j]]])
    /\ fnIn = Undefined
    /\ fnOut = -1
    /\ sheet1 = << >>
    /\ compAOA = << >>
    /\ message = "Preparing download..."
    /\ run = 1
    /\ first = << >>
    /\ Downloading

NextCompliance ==
    \/ RejectEmpty
    \/ BuildWorkbook

SpecCompliance == InitCompliance /\ [][NextCompliance]_vars

----------------------------------------------------------------------------
(* normalizeKey called on its own                                          *)

\* Largest number of columns of the sheet.
MaxHeaders == 3

HeaderNames ==
    {"Number", "Priority", "State", "Opened", "Updated", "opened", "Opened By",
     "Op ened", "Last UPDATED", "Up dated on", "Incident Number", "Comments"}

\* The five fields processRows resolves (lines 253-257).
Targets == {"Number", "Priority", "State", "Opened", "Updated"}

\* Object.keys(rows[0]): distinct names, in column order.
KeyLists ==
    UNION {{ks \in [1..n -> HeaderNames] : \A i, j \in 1..n : i # j => ks[i] # ks[j]} :
              n \in 0..MaxHeaders}

InitKeys ==
    /\ tz \in TimeZones
    /\ rows = << >>
    /\ pc = "idle"
    /\ keys = DefaultKeys
    /\ idx = 1
    /\ groups = << >>
    /\ groupOrder = << >>
    /\ outRows = << >>
    /\ maxUpdates = 0
    /\ headers = << >>
    /\ data = << >>
    /\ fnIn \in {[keys |-> ks, target |-> t] : ks \in KeyLists, t \in Targets}
    /\ fnOut = ""
    /\ NoDownload
    /\ Rendered

\* `normalizeKey(allKeys, target) || target`
CallResolveKey ==
    /\ pc = "idle"
    /\ fnOut' = resolveKey(fnIn.keys, fnIn.target)
    /\ pc' = "returned"
    /\ UNCHANGED <<tz, rows, keys, idx, groups, groupOrder, outRows, maxUpdates,
                   headers, data, fnIn, dlVars, runVars, uiVars, authVars, histVars>>

NextKeys == CallResolveKey

SpecKeys == InitKeys /\ [][NextKeys]_vars

----------------------------------------------------------------------------
(* formatInterval called on its own                                        *)

\* Largest number of whole days of an interval.
MaxDays == 2

\* Differences of two instants, in ms, of either sign: around the turn of
\* the second, the minute, the hour and the day.
IntervalArgs ==
    LET seconds == {((d * 24 + h) * 60 + m) * 60 + sec :
                       d \in 0..MaxDays, h \in {0, 1, 23}, m \in {0, 1, 59}, sec \in {0, 1, 59}}
    IN {sign * (t * 1000 + frac) : sign \in {-1, 1}, t \in seconds, frac \in {0, 1, 999}}

InitInterval ==
    /\ tz \in TimeZones
    /\ rows = << >>
    /\ pc = "idle"
    /\ keys = DefaultKeys
    /\ idx = 1
    /\ groups = << >>
    /\ groupOrder = << >>
    /\ outRows = << >>
    /\ maxUpdates = 0
    /\ headers = << >>
    /\ data = << >>
    /\ fnIn \in IntervalArgs
    /\ fnOut = << >>
    /\ NoDownload
    /\ Rendered

CallFormatInterval ==
    /\ pc = "idle"
    /\ fnOut' = formatInterval(fnIn)
    /\ pc' = "returned"
    /\ UNCHANGED <<tz, rows, keys, idx, groups, groupOrder, outRows, maxUpdates,
                   headers, data, fnIn, dlVars, runVars, uiVars, authVars, histVars>>

NextInterval == CallFormatInterval

SpecInterval == InitInterval /\ [][NextInterval]_vars

----------------------------------------------------------------------------
(* parseToDate called on its own                                           *)

\* Offsets of the local time zone of the runtime: UTC, UTC+05:30, UTC-08:00.
LocalZones == {0, 19800000, 0 - 28800000}

\* Largest distance, in days, of a spreadsheet serial from 2024-01-01.
MaxSerialDays == 20

\* Whole spreadsheet serials around 45292, the serial of 2024-01-01.
Serials ==
    {ExcelEpochOffset + OriginDays + k : k \in (0 - MaxSerialDays)..MaxSerialDays}

InitSerial ==
    /\ tz \in LocalZones
    /\ rows = << >>
    /\ pc = "idle"
    /\ keys = DefaultKeys
    /\ idx = 1
    /\ groups = << >>
    /\ groupOrder = << >>
    /\ outRows = << >>
    /\ maxUpdates = 0
    /\ headers = << >>
    /\ data = << >>
    /\ fnIn \in Serials
    /\ fnOut = << >>
    /\ NoDownload
    /\ Rendered

\* formatIso(parseToDate(serial)) for a numeric cell.
CallParseSerial ==
    /\ pc = "idle"
    /\ fnOut' = formatIso(tz, parseToDate(tz, Num(fnIn)))
    /\ pc' = "returned"
    /\ UNCHANGED <<tz, rows, keys, idx, groups, groupOrder, outRows, maxUpdates,
                   headers, data, fnIn, dlVars, runVars, uiVars, authVars, histVars>>

NextSerial == CallParseSerial

SpecSerial == InitSerial /\ [][NextSerial]_vars

\* What s.match(re) can capture from a string (lines 144-146): day, month
\* and year of two or four digits around 2024-01-01, an hour and a minute of
\* one or two digits, seconds or none (-1), AM or PM in either case or none.
StrictMatches ==
    {Groups(dmy[1], dmy[2], dmy[3], h, mi, sec, ap) :
        dmy \in {<<1, 1, 24>>, <<1, 1, 2024>>, <<31, 12, 23>>, <<31, 12, 2023>>,
                 <<15, 1, 2024>>},
        h \in {0, 1, 11, 12, 13, 23}, mi \in {0, 59}, sec \in {-1, 0, 59},
        ap \in {"", "AM", "PM", "am", "pm"}}

\* What Date.parse(s.replace(' ', 'T')) can read from a string (line 164):
\* local wall-clock fields, which need not be those the strict pattern
\* captures from the same string (the fallback takes the month first).
FallbackParses ==
    {Groups(2, 1, 2024, 8, 0, 0, ""), Groups(31, 12, 2023, 23, 59, 59, "")}

\* The strings parseToDate is given, each by what the strict pattern and
\* the fallback parser make of it.
StringArgs ==
    {[m |-> m, p |-> p] : m \in StrictMatches \cup {NoMatch},
                          p \in FallbackParses \cup {NoMatch}}

InitParse ==
    /\ tz \in LocalZones
    /\ rows = << >>
    /\ pc = "idle"
    /\ keys = DefaultKeys
    /\ idx = 1
    /\ groups = << >>
    /\ groupOrder = << >>
    /\ outRows = << >>
    /\ maxUpdates = 0
    /\ headers = << >>
    /\ data = << >>
    /\ fnIn \in StringArgs
    /\ fnOut = NoDate
    /\ NoDownload
    /\ Rendered

\* parseToDate(val) for a non-empty string.
CallParseString ==
    /\ pc = "idle"
    /\ fnOut' = fromMatch(tz, fnIn.m, fnIn.p)
    /\ pc' = "returned"
    /\ UNCHANGED <<tz, rows, keys, idx, groups, groupOrder, outRows, maxUpdates,
                   headers, data, fnIn, dlVars, runVars, uiVars, authVars, histVars>>

NextParse == CallParseString

SpecParse == InitParse /\ [][NextParse]_vars

----------------------------------------------------------------------------
(* The handlers of the component                                           *)

\* _clearState, but for the selection and the message, which
\* handleFileChange sets after it.
clearPreview ==
    /\ processing' = FALSE
    /\ allHeaders' = << >>
    /\ allRows' = 0
    /\ totalRowsCount' = 0
    /\ globalFilter' = << >>
    /\ columnFilters' = NoFilters
    /\ pageSize' = DefaultPageSize
    /\ currentPage' = 1

clearState ==
    /\ fileName' = << >>
    /\ fileValid' = FALSE
    /\ inputFile' = NoFile
    /\ message' = "Select a .xlsx file"
    /\ clearPreview

handleFileChange(file) ==
    /\ clearPreview
    /\ IF ~file.some
       THEN /\ fileName' = << >>
            /\ fileValid' = FALSE
            /\ inputFile' = NoFile
            /\ message' = "No file selected"
       ELSE IF ~validateFile(file)
       THEN /\ fileName' = << >>
            /\ fileValid' = FALSE
            /\ inputFile' = NoFile
            /\ message' = "Only .xlsx files are accepted."
       ELSE /\ inputFile' = file
            /\ fileName' = file.name
            /\ fileValid' = TRUE
            /\ message' = "ready"
    /\ chosenAt' = IF validateFile(file) THEN timerSeq ELSE chosenAt
    /\ UNCHANGED <<showConfirmClear, isFadingOut, timers, timerSeq,
                   globalFilterTimer, columnFilterTimers, reads>>
    /\ UNCHANGED <<procVars, fnVars, sheet1, compAOA, runVars, authVars>>

\* The Clear button (lines 1077-1080) and Ctrl/Cmd+K (lines 57-62).
AskClear ==
    /\ fileValid \/ allRows > 0
    /\ showConfirmClear' = TRUE
    /\ UNCHANGED <<fileName, fileValid, inputFile, processing, allHeaders, allRows,
                   totalRowsCount, globalFilter, columnFilters, pageSize,
                   currentPage, isFadingOut, timers, timerSeq, globalFilterTimer,
                   columnFilterTimers, reads>>
    /\ UNCHANGED <<procVars, fnVars, dlVars, runVars, authVars, histVars>>

\* 'Cancel' of the confirmation (line 1168).
CancelClear ==
    /\ showConfirmClear
    /\ showConfirmClear' = FALSE
    /\ UNCHANGED <<fileName, fileValid, inputFile, processing, allHeaders, allRows,
                   totalRowsCount, globalFilter, columnFilters, pageSize,
                   currentPage, isFadingOut, timers, timerSeq, globalFilterTimer,
                   columnFilterTimers, reads>>
    /\ UNCHANGED <<procVars, fnVars, dlVars, runVars, authVars, histVars>>

\* 'Yes, clear' of the confirmation: resetAllState(true).
ConfirmClear ==
    /\ showConfirmClear
    /\ timerSeq < MaxTimers
    /\ showConfirmClear' = FALSE
    /\ isFadingOut' = TRUE
    /\ timers' = timers \cup {setTimeout("clear", << >>, << >>)}
    /\ timerSeq' = timerSeq + 1
    /\ UNCHANGED <<fileName, fileValid, inputFile, processing, allHeaders, allRows,
                   totalRowsCount, globalFilter, columnFilters, pageSize,
                   currentPage, globalFilterTimer, columnFilterTimers, reads>>
    /\ UNCHANGED <<procVars, fnVars, dlVars, runVars, authVars, histVars>>

\* The callback of resetAllState's timeout.
ClearTimeout ==
    \E t \in timers :
        /\ t.kind = "clear"
        /\ t.left = 0
        /\ timers' = timers \ {t}
        /\ clearState
        /\ isFadingOut' = FALSE
        /\ UNCHANGED <<showConfirmClear, timerSeq, globalFilterTimer,
                       columnFilterTimers, reads>>
        /\ UNCHANGED <<procVars, fnVars, sheet1, compAOA, runVars, authVars, histVars>>

\* Time passes: every pending timeout becomes due.
Tick ==
    /\ \E t \in timers : t.left > 0
    /\ timers' = {[t EXCEPT !.left = IF t.left > Delay THEN t.left - Delay ELSE 0] :
                    t \in timers}
    /\ UNCHANGED <<fileName, fileValid, inputFile, processing, allHeaders, allRows,
                   totalRowsCount, globalFilter, columnFilters, pageSize,
                   currentPage, showConfirmClear, isFadingOut, timerSeq,
                   globalFilterTimer, columnFilterTimers, reads>>
    /\ UNCHANGED <<procVars, fnVars, dlVars, runVars, authVars, histVars>>

\* The 'Generate preview' button, enabled unless !fileValid || processing.
handleGenerate ==
    /\ fileValid /\ ~processing
    /\ fileValid /\ inputFile.some
    /\ Len(reads) < MaxReads
    /\ processing' = TRUE
    /\ message' = "Processing and preparing preview..."
    /\ reads' = Append(reads, [kind |-> "generate", file |-> inputFile])
    /\ UNCHANGED <<fileName, fileValid, inputFile, allHeaders, allRows,
                   totalRowsCount, globalFilter, columnFilters, pageSize,
                   currentPage, showConfirmClear, isFadingOut, timers, timerSeq,
                   globalFilterTimer, columnFilterTimers>>
    /\ UNCHANGED <<procVars, fnVars, sheet1, compAOA, runVars, authVars, histVars>>

Without(s, i) == [k \in 1..(Len(s) - 1) |-> IF k < i THEN s[k] ELSE s[k + 1]]

\* reader.onload of handleGenerate.
GenerateLoaded(i) ==
    /\ reads[i].kind = "generate"
    /\ reads' = Without(reads, i)
    /\ IF reads[i].file.throws
       THEN /\ message' = "Error processing file"
            /\ allHeaders' = << >>
            /\ allRows' = 0
            /\ totalRowsCount' = 0
            /\ UNCHANGED currentPage
       ELSE /\ allHeaders' = IF reads[i].file.rows > 0 THEN PreviewHeaders ELSE << >>
            /\ allRows' = reads[i].file.rows
            /\ totalRowsCount' = reads[i].file.rows
            /\ currentPage' = 1
            /\ message' = "Preview ready"
    /\ processing' = FALSE
    /\ UNCHANGED <<fileName, fileValid, inputFile, globalFilter, columnFilters,
                   pageSize, showConfirmClear, isFadingOut, timers, timerSeq,
                   globalFilterTimer, columnFilterTimers>>
    /\ UNCHANGED <<procVars, fnVars, sheet1, compAOA, runVars, authVars, histVars>>

\* The 'Download Excel' button, enabled unless
\* !fileValid || processing || totalRowsCount === 0.
startDownload ==
    /\ fileValid /\ ~processing /\ totalRowsCount # 0
    /\ fileValid /\ inputFile.some
    /\ Len(reads) < MaxReads
    /\ processing' = TRUE
    /\ message' = "Preparing download..."
    /\ reads' = Append(reads, [kind |-> "download", file |-> inputFile])
    /\ UNCHANGED <<fileName, fileValid, inputFile, allHeaders, allRows,
                   totalRowsCount, globalFilter, columnFilters, pageSize,
                   currentPage, showConfirmClear, isFadingOut, timers, timerSeq,
                   globalFilterTimer, columnFilterTimers>>
    /\ UNCHANGED <<procVars, fnVars, sheet1, compAOA, runVars, authVars, histVars>>

\* reader.onload of handleDownload.
DownloadLoaded(i) ==
    /\ reads[i].kind = "download"
    /\ reads' = Without(reads, i)
    /\ message' = IF reads[i].file.throws \/ reads[i].file.rows = 0
                  THEN "Error preparing download"
                  ELSE "Downloaded"
    /\ processing' = FALSE
    /\ UNCHANGED <<fileName, fileValid, inputFile, allHeaders, allRows,
                   totalRowsCount, globalFilter, columnFilters, pageSize,
                   currentPage, showConfirmClear, isFadingOut, timers, timerSeq,
                   globalFilterTimer, columnFilterTimers>>
    /\ UNCHANGED <<procVars, fnVars, sheet1, compAOA, runVars, authVars, histVars>>

\* reader.onerror of handleGenerate and of handleDownload.
ReadFailed(i) ==
    /\ reads' = Without(reads, i)
    /\ processing' = FALSE
    /\ message' = "Failed to read file"
    /\ UNCHANGED <<fileName, fileValid, inputFile, allHeaders, allRows,
                   totalRowsCount, globalFilter, columnFilters, pageSize,
                   currentPage, showConfirmClear, isFadingOut, timers, timerSeq,
                   globalFilterTimer, columnFilterTimers>>
    /\ UNCHANGED <<procVars, fnVars, sheet1, compAOA, runVars, authVars, histVars>>

\* The controls of PreviewTable, rendered while allHeaders is not empty.
\* setCurrentPage alone: the paging buttons and the page box.
GoToPage(p) ==
    /\ Len(allHeaders) > 0
    /\ currentPage' = p
    /\ UNCHANGED <<fileName, fileValid, inputFile, processing, allHeaders, allRows,
                   totalRowsCount, globalFilter, columnFilters, pageSize,
                   showConfirmClear, isFadingOut, timers, timerSeq,
                   globalFilterTimer, columnFilterTimers, reads>>
    /\ UNCHANGED <<procVars, fnVars, dlVars, runVars, authVars, histVars>>

FirstPage == currentPage # 1 /\ GoToPage(1)

PrevPage == currentPage # 1 /\ GoToPage(IF currentPage - 1 > 1 THEN currentPage - 1 ELSE 1)

NextPage ==
    /\ currentPage # totalPages
    /\ GoToPage(IF currentPage + 1 < totalPages THEN currentPage + 1 ELSE totalPages)

LastPage == currentPage # totalPages /\ GoToPage(totalPages)

\* The page box: Number(e.target.value || 1), kept when within 1..totalPages;
\* the emptied box is v = -1.
EnterPage(v) ==
    LET n == IF v = -1 THEN 1 ELSE v
    IN GoToPage(IF n >= 1 /\ n <= totalPages THEN n ELSE currentPage)

\* The 'Rows per page' select.
SetPageSize(size) ==
    /\ Len(allHeaders) > 0
    /\ pageSize' = size
    /\ currentPage' = 1
    /\ UNCHANGED <<fileName, fileValid, inputFile, processing, allHeaders, allRows,
                   totalRowsCount, globalFilter, columnFilters, showConfirmClear,
                   isFadingOut, timers, timerSeq, globalFilterTimer,
                   columnFilterTimers, reads>>
    /\ UNCHANGED <<procVars, fnVars, dlVars, runVars, authVars, histVars>>

onGlobalFilterChange(v) ==
    /\ Len(allHeaders) > 0
    /\ timerSeq < MaxTimers
    /\ timers' = clearTimeout(timers, globalFilterTimer) \cup {setTimeout("global", << >>, v)}
    /\ globalFilterTimer' = timerSeq + 1
    /\ timerSeq' = timerSeq + 1
    /\ UNCHANGED <<fileName, fileValid, inputFile, processing, allHeaders, allRows,
                   totalRowsCount, globalFilter, columnFilters, pageSize,
                   currentPage, showConfirmClear, isFadingOut, columnFilterTimers,
                   reads>>
    /\ UNCHANGED <<procVars, fnVars, dlVars, runVars, authVars, histVars>>

\* The callback of onGlobalFilterChange's timeout.
GlobalFilterTimeout ==
    \E t \in timers :
        /\ t.kind = "global"
        /\ t.left = 0
        /\ timers' = timers \ {t}
        /\ globalFilter' = t.b
        /\ currentPage' = 1
        /\ UNCHANGED <<fileName, fileValid, inputFile, processing, allHeaders,
                       allRows, totalRowsCount, columnFilters, pageSize,
                       showConfirmClear, isFadingOut, timerSeq, globalFilterTimer,
                       columnFilterTimers, reads>>
        /\ UNCHANGED <<procVars, fnVars, dlVars, runVars, authVars, histVars>>

\* onColumnFilterChange without the clearTimeout of the column's timer.
onColumnFilterChangeKeepTimer(col, v) ==
    /\ Len(allHeaders) > 0
    /\ timerSeq < MaxTimers
    /\ timers' = timers \cup {setTimeout("column", <<col>>, v)}
    /\ columnFilterTimers' = [columnFilterTimers EXCEPT ![col] = timerSeq + 1]
    /\ timerSeq' = timerSeq + 1
    /\ UNCHANGED <<fileName, fileValid, inputFile, processing, allHeaders, allRows,
                   totalRowsCount, globalFilter, columnFilters, pageSize,
                   currentPage, showConfirmClear, isFadingOut, globalFilterTimer,
                   reads>>
    /\ UNCHANGED <<procVars, fnVars, dlVars, runVars, authVars, histVars>>

onColumnFilterChange(col, v) ==
    /\ Len(allHeaders) > 0
    /\ timerSeq < MaxTimers
    /\ timers' = clearTimeout(timers, columnFilterTimers[col])
                    \cup {setTimeout("column", <<col>>, v)}
    /\ columnFilterTimers' = [columnFilterTimers EXCEPT ![col] = timerSeq + 1]
    /\ timerSeq' = timerSeq + 1
    /\ UNCHANGED <<fileName, fileValid, inputFile, processing, allHeaders, allRows,
                   totalRowsCount, globalFilter, columnFilters, pageSize,
                   currentPage, showConfirmClear, isFadingOut, globalFilterTimer,
                   reads>>
    /\ UNCHANGED <<procVars, fnVars, dlVars, runVars, authVars, histVars>>

\* The callback of onColumnFilterChange's timeout.
ColumnFilterTimeout ==
    \E t \in timers :
        /\ t.kind = "column"
        /\ t.left = 0
        /\ timers' = timers \ {t}
        /\ columnFilters' = [columnFilters EXCEPT ![t.a[1]] = t.b]
        /\ currentPage' = 1
        /\ UNCHANGED <<fileName, fileValid, inputFile, processing, allHeaders,
                       allRows, totalRowsCount, globalFilter, pageSize,
                       showConfirmClear, isFadingOut, timerSeq, globalFilterTimer,
                       columnFilterTimers, reads>>
        /\ UNCHANGED <<procVars, fnVars, dlVars, runVars, authVars, histVars>>

clearFilters ==
    /\ Len(allHeaders) > 0
    /\ globalFilter' = << >>
    /\ columnFilters' = NoFilters
    /\ currentPage' = 1
    /\ UNCHANGED <<fileName, fileValid, inputFile, processing, allHeaders, allRows,
                   totalRowsCount, pageSize, showConfirmClear, isFadingOut, timers,
                   timerSeq, globalFilterTimer, columnFilterTimers, reads>>
    /\ UNCHANGED <<procVars, fnVars, dlVars, runVars, authVars, histVars>>

\* The component's controls.
InitPage ==
    /\ tz \in TimeZones
    /\ rows = << >>
    /\ pc = "idle"
    /\ keys = DefaultKeys
    /\ idx = 1
    /\ groups = << >>
    /\ groupOrder = << >>
    /\ outRows = << >>
    /\ maxUpdates = 0
    /\ headers = << >>
    /\ data = << >>
    /\ fnIn = Undefined
    /\ fnOut = -1
    /\ sheet1 = << >>
    /\ compAOA = << >>
    /\ message = "Select a .xlsx file"
    /\ run = 1
    /\ first = << >>
    /\ Rendered

ReadCompletes ==
    \E i \in 1..Len(reads) : GenerateLoaded(i) \/ DownloadLoaded(i) \/ ReadFailed(i)

NextPageStep ==
    \/ \E file \in Files \cup {NoFile} : handleFileChange(file)
    \/ AskClear
    \/ CancelClear
    \/ ConfirmClear
    \/ ClearTimeout
    \/ Tick
    \/ handleGenerate
    \/ startDownload
    \/ \E i \in 1..Len(reads) : GenerateLoaded(i)
    \/ \E i \in 1..Len(reads) : DownloadLoaded(i)
    \/ \E i \in 1..Len(reads) : ReadFailed(i)
    \/ FirstPage
    \/ PrevPage
    \/ NextPage
    \/ LastPage
    \/ \E v \in -1..4 : EnterPage(v)
    \/ \E size \in PageSizes : SetPageSize(size)

SpecPage == InitPage /\ [][NextPageStep]_vars

\* A FileReader fires onload or onerror in the end.
SpecPageFair == SpecPage /\ WF_vars(ReadCompletes)

\* The preview of a.XLSX on the screen, none of its controls used yet.
InitFilter ==
    /\ tz \in TimeZones
    /\ rows = << >>
    /\ pc = "idle"
    /\ keys = DefaultKeys
    /\ idx = 1
    /\ groups = << >>
    /\ groupOrder = << >>
    /\ outRows = << >>
    /\ maxUpdates = 0
    /\ headers = << >>
    /\ data = << >>
    /\ fnIn = Undefined
    /\ fnOut = -1
    /\ sheet1 = << >>
    /\ compAOA = << >>
    /\ message = "Preview ready"
    /\ run = 1
    /\ first = << >>
    /\ fileName = <<"a", ".", "X", "L", "S", "X">>
    /\ fileValid = TRUE
    /\ inputFile \in {f \in Files : f.name = fileName}
    /\ processing = FALSE
    /\ allHeaders = PreviewHeaders
    /\ allRows = MaxRows
    /\ totalRowsCount = MaxRows
    /\ globalFilter = << >>
    /\ columnFilters = NoFilters
    /\ pageSize = DefaultPageSize
    /\ currentPage = 1
    /\ showConfirmClear = FALSE
    /\ isFadingOut = FALSE
    /\ timers = {}
    /\ timerSeq = 0
    /\ globalFilterTimer = 0
    /\ columnFilterTimers = [h \in {"Number", "Priority"} |-> 0]
    /\ reads = << >>
    /\ BlankLogin
    /\ erp_auth = TRUE
    /\ location = "/"
    /\ chosenAt = 0

NextFilter ==
    \/ \E v \in FilterTexts : onGlobalFilterChange(v)
    \/ GlobalFilterTimeout
    \/ \E col \in {"Number", "Priority"} : \E v \in FilterTexts :
          onColumnFilterChange(col, v)
    \/ ColumnFilterTimeout
    \/ clearFilters
    \/ Tick
    \/ FirstPage
    \/ PrevPage
    \/ NextPage
    \/ LastPage
    \/ \E size \in PageSizes : SetPageSize(size)

SpecFilter == InitFilter /\ [][NextFilter]_vars

----------------------------------------------------------------------------
(* Signing in and out: LoginPage.jsx and the routes of App.js              *)

\* What is typed into the User ID and Password boxes.
Words == {<< >>, <<"admin">>, <<"Admin">>}

\* The paths a page load can ask for.
Paths == {"/login", "/", "/home", "/reports"}

RequireAuthAnyone(flag, path) == path

RequireAuth(flag, path) == IF ~flag THEN "/login" ELSE path

\* The path the router ends on: /login is public, / and /home are wrapped
\* in RequireAuth, anything else is sent to /.
Route(flag, path) ==
    IF path = "/login" THEN "/login"
    ELSE IF path \in {"/", "/home"} THEN RequireAuth(flag, path)
    ELSE RequireAuth(flag, "/")

\* The page is loaded at a path: nothing of the old page is left but
\* localStorage.
Visit(path) ==
    /\ location' = Route(erp_auth, path)
    /\ timers' = {}
    /\ user' = << >>
    /\ pass' = << >>
    /\ showError' = FALSE
    /\ signingIn' = FALSE
    /\ UNCHANGED <<erp_auth, fileName, fileValid, inputFile, processing, allHeaders,
                   allRows, totalRowsCount, globalFilter, columnFilters, pageSize,
                   currentPage, showConfirmClear, isFadingOut, timerSeq,
                   globalFilterTimer, columnFilterTimers, reads>>
    /\ UNCHANGED <<procVars, fnVars, dlVars, runVars, histVars>>

setUser(v) ==
    /\ location = "/login"
    /\ user' = v
    /\ UNCHANGED <<erp_auth, location, pass, showError, signingIn>>
    /\ UNCHANGED <<procVars, fnVars, dlVars, runVars, uiVars, histVars>>

setPass(v) ==
    /\ location = "/login"
    /\ pass' = v
    /\ UNCHANGED <<erp_auth, location, user, showError, signingIn>>
    /\ UNCHANGED <<procVars, fnVars, dlVars, runVars, uiVars, histVars>>

\* The 'Sign in' button, disabled while processing.
handleSubmit ==
    /\ location = "/login"
    /\ ~signingIn
    /\ timerSeq < MaxTimers
    /\ signingIn' = TRUE
    /\ timers' = timers \cup {setTimeout("login", user, pass)}
    /\ timerSeq' = timerSeq + 1
    /\ UNCHANGED <<erp_auth, location, user, pass, showError>>
    /\ UNCHANGED <<fileName, fileValid, inputFile, processing, allHeaders, allRows,
                   totalRowsCount, globalFilter, columnFilters, pageSize,
                   currentPage, showConfirmClear, isFadingOut, globalFilterTimer,
                   columnFilterTimers, reads>>
    /\ UNCHANGED <<procVars, fnVars, dlVars, runVars, histVars>>

\* The callback of handleSubmit's timeout; stored is whether
\* localStorage.setItem went through (its exception is swallowed).
LoginTimeout(stored) ==
    \E t \in timers :
        /\ t.kind = "login"
        /\ t.left = 0
        /\ timers' = timers \ {t}
        /\ signingIn' = FALSE
        /\ IF t.a = <<"admin">> /\ t.b = <<"admin">>
           THEN /\ erp_auth' = (erp_auth \/ stored)
                /\ location' = Route(erp_auth', "/")
                /\ user' = << >>
                /\ pass' = << >>
                /\ showError' = FALSE
           ELSE /\ showError' = TRUE
                /\ UNCHANGED <<erp_auth, location, user, pass>>
        /\ UNCHANGED <<fileName, fileValid, inputFile, processing, allHeaders,
                       allRows, totalRowsCount, globalFilter, columnFilters,
                       pageSize, currentPage, showConfirmClear, isFadingOut,
                       timerSeq, globalFilterTimer, columnFilterTimers, reads>>
        /\ UNCHANGED <<procVars, fnVars, dlVars, runVars, histVars>>

\* The Logout button of the component: onLogout.
handleLogout ==
    /\ location \in {"/", "/home"}
    /\ erp_auth' = FALSE
    /\ location' = Route(erp_auth', "/login")
    /\ user' = << >>
    /\ pass' = << >>
    /\ showError' = FALSE
    /\ signingIn' = FALSE
    /\ UNCHANGED <<procVars, fnVars, dlVars, runVars, uiVars, histVars>>

\* A browser without the flag opens the application.
InitAuth ==
    /\ tz \in TimeZones
    /\ rows = << >>
    /\ pc = "idle"
    /\ keys = DefaultKeys
    /\ idx = 1
    /\ groups = << >>
    /\ groupOrder = << >>
    /\ outRows = << >>
    /\ maxUpdates = 0
    /\ headers = << >>
    /\ data = << >>
    /\ fnIn = Undefined
    /\ fnOut = -1
    /\ sheet1 = << >>
    /\ compAOA = << >>
    /\ message = "Select a .xlsx file"
    /\ run = 1
    /\ first = << >>
    /\ Mounted
    /\ BlankLogin
    /\ erp_auth = FALSE
    /\ location \in {Route(FALSE, path) : path \in Paths}
    /\ chosenAt = 0

NextAuth ==
    \/ \E path \in Paths : Visit(path)
    \/ \E v \in Words : setUser(v)
    \/ \E v \in Words : setPass(v)
    \/ handleSubmit
    \/ Tick
    \/ \E stored \in BOOLEAN : LoginTimeout(stored)
    \/ handleLogout

SpecAuth == InitAuth /\ [][NextAuth]_vars

----------------------------------------------------------------------------
(* Claims                                                                  *)

Y == <<"Y">>
N == <<"N">>
Hour == 3600 * 1000

\* The rows built so far, as indexes of data (and of outRows).
Built == 1..Len(data)

Slots == 1..maxUpdates

\* C1: the 'Made SLA' value of every row is 'N' if one of its 'Made SLA i'
\* cells is 'N', 'Y' if none is 'N' and at least one is 'Y', and empty if
\* every 'Made SLA i' cell is empty.
C1_AggregateVerdict ==
    \A j \in Built :
        LET row == data[j]
            some(v) == \E i \in Slots : row[slaCol(i)] = v
        IN row[MadeSlaCol] = (IF some(N) THEN N ELSE IF some(Y) THEN Y ELSE << >>)

\* A finished row with the verdicts Y, N, Y and the aggregate N.
C1_Witness ==
    /\ pc = "done"
    /\ \E j \in Built :
          /\ maxUpdates >= 3
          /\ data[j][slaCol(1)] = Y
          /\ data[j][slaCol(2)] = N
          /\ data[j][slaCol(3)] = Y
          /\ data[j][MadeSlaCol] = N

\* The two endpoints of slot i of the incident outRows[j], as the claims
\* name them: openedAt or the parsed timestamp of update i-1, and the parsed
\* timestamp of update i.
EndpointsOf(j, i) ==
    LET inc == outRows[j]
        has(k) == k >= 1 /\ k <= Len(inc.updates) /\ inc.updates[k].d.ok
    IN [prevOk |-> IF i = 1 THEN inc.openedDate.ok ELSE has(i - 1),
        prev |-> IF i = 1 THEN inc.openedDate.ms
                 ELSE IF has(i - 1) THEN inc.updates[i - 1].d.ms ELSE 0,
        currOk |-> has(i),
        curr |-> IF has(i) THEN inc.updates[i].d.ms ELSE 0]

\* C2: in every row, a slot whose two endpoints resolve has the verdict 'Y'
\* if current - previous <= threshold of the incident's priority and 'N'
\* otherwise; a slot with a missing endpoint has an empty verdict; and the
\* verdict is empty exactly when the 'Interval i' cell is empty.
C2_SlotVerdict ==
    \A j \in Built : \A i \in Slots :
        LET e == EndpointsOf(j, i)
            thr == priorityThresholdMs(outRows[j].priority)
            row == data[j]
        IN /\ (e.prevOk /\ e.currOk) =>
                 row[slaCol(i)] = (IF e.curr - e.prev <= thr THEN Y ELSE N)
           /\ ~(e.prevOk /\ e.currOk) => row[slaCol(i)] = << >>
           /\ (row[slaCol(i)] = << >>) <=> (row[intervalCol(i)] = << >>)

\* A row with a slot of exactly the threshold, verdict 'Y', another row or
\* slot over the threshold, verdict 'N', and a slot left empty.
C2_Witness ==
    /\ pc = "done"
    /\ \E j \in Built : \E i \in Slots :
          LET e == EndpointsOf(j, i)
          IN /\ e.prevOk /\ e.currOk
             /\ e.curr - e.prev = priorityThresholdMs(outRows[j].priority)
             /\ data[j][slaCol(i)] = Y
    /\ \E j \in Built : \E i \in Slots : data[j][slaCol(i)] = N
    /\ \E j \in Built : \E i \in Slots : data[j][slaCol(i)] = << >>

\* The label with its leading white space removed.
RECURSIVE DropLeadingSpace(_)
DropLeadingSpace(l) ==
    IF l # << >> /\ l[1] \in WhiteSpace THEN DropLeadingSpace(Tail(l)) ELSE l

\* l starts with P or p followed by the digit d.
StartsWithP(l, d) == Len(l) >= 2 /\ l[1] \in {"P", "p"} /\ l[2] = d

\* The threshold the table gives a label text.
TableThreshold(l) ==
    IF StartsWithP(l, "1") THEN Hour
    ELSE IF StartsWithP(l, "2") THEN 3 * Hour
    ELSE IF StartsWithP(l, "3") THEN 4 * Hour
    ELSE 8 * Hour

\* C3 as stated: the threshold is the table's for the label as given (a
\* label starting with P1, P2, P3, P4 in any case), 8h for every other
\* label and for a missing, empty or non-string one.
C3_Original ==
    fnOut # -1 =>
        fnOut = (IF fnIn.t = "str" THEN TableThreshold(fnIn.s) ELSE 8 * Hour)

\* C3, amended: the threshold is the table's for the label with its leading
\* white space removed; 8h for a missing, empty or non-string label.
C3_ThresholdTable ==
    fnOut # -1 =>
        fnOut = (IF fnIn.t = "str" THEN TableThreshold(DropLeadingSpace(fnIn.s))
                 ELSE 8 * Hour)

\* priorityThresholdMs(" p1") has returned one hour.
C3_Witness == fnIn = Str(<<" ", "p", "1">>) /\ fnOut = Hour

\* The widest incident: the largest number of update events of an incident.
MaxWidth ==
    LET lens == {Len(outRows[j].updates) : j \in 1..Len(outRows)}
    IN IF lens = {} THEN 0 ELSE CHOOSE m \in lens : \A l \in lens : l <= m

\* C4: for a non-empty input the headers are Number, Priority, State,
\* Opened Date, then an ordinal Updated, an Interval and a Made SLA column
\* for each of MaxWidth slots, then Made SLA; every row holds a value for
\* exactly these columns, and the slots after an incident's last update
\* event hold empty Updated, Interval and verdict cells.
C4_FanOut ==
    (pc \in {"rows", "done"} /\ Len(rows) > 0) =>
        /\ Len(headers) = 4 + 3 * MaxWidth + 1
        /\ SubSeq(headers, 1, 4) = FixedCols
        /\ headers[Len(headers)] = MadeSlaCol
        /\ \A i \in 1..MaxWidth :
              /\ headers[3 * i + 2] = Col("Updated", i, getOrdinalSuffix(i))
              /\ headers[3 * i + 3] = Col("Interval", i, "")
              /\ headers[3 * i + 4] = Col("Made SLA", i, "")
        /\ \A j \in Built :
              /\ DOMAIN data[j] = {headers[h] : h \in 1..Len(headers)}
              /\ Cardinality(DOMAIN data[j]) = Len(headers)
              /\ \A i \in (Len(outRows[j].updates) + 1)..MaxWidth :
                    /\ data[j][Col("Updated", i, getOrdinalSuffix(i))] = << >>
                    /\ data[j][Col("Interval", i, "")] = << >>
                    /\ data[j][Col("Made SLA", i, "")] = << >>
        /\ pc = "done" => Len(data) = Len(outRows)

\* Two finished rows, the first of an incident with fewer update events
\* than the second one.
C4_Witness ==
    /\ pc = "done"
    /\ Len(data) = 2
    /\ Len(outRows[1].updates) >= 1
    /\ Len(outRows[1].updates) < Len(outRows[2].updates)
    /\ data[1][Col("Updated", MaxWidth, getOrdinalSuffix(MaxWidth))] = << >>

\* C5: in every row the Interval cell of slot i is present; it holds the
\* days, hours, minutes and seconds of current - previous when the previous
\* endpoint (openedAt for slot 1, else the parsed timestamp of update i-1)
\* and the current endpoint (the parsed timestamp of update i) both exist,
\* and is empty otherwise.
C5_Interval ==
    \A j \in Built : \A i \in Slots :
        LET e == EndpointsOf(j, i)
            cell == data[j][intervalCol(i)]
            d == e.curr - e.prev
            secs == (IF d < 0 THEN 0 - d ELSE d) \div 1000
        IN /\ intervalCol(i) \in DOMAIN data[j]
           /\ IF e.prevOk /\ e.currOk
              THEN /\ Len(cell) = 4
                   /\ cell[1] * 86400 + cell[2] * 3600 + cell[3] * 60 + cell[4] = secs
                   /\ cell[2] < 24 /\ cell[3] < 60 /\ cell[4] < 60
              ELSE cell = << >>

\* A finished row whose slot 2 is computed from update 1 to update 2, over a
\* time other than the one from the opened date, and whose last slot holds
\* an unparsed update event and an empty interval.
C5_Witness ==
    /\ pc = "done"
    /\ \E j \in Built :
          LET inc == outRows[j]
          IN /\ Len(inc.updates) >= 3
             /\ inc.openedDate.ok
             /\ inc.updates[2].d.ok
             /\ inc.updates[1].d.ms # inc.openedDate.ms
             /\ data[j][intervalCol(2)] # << >>
             /\ ~inc.updates[Len(inc.updates)].d.ok
             /\ data[j][intervalCol(Len(inc.updates))] = << >>

\* Code unit of a character of the model (UTF-16).
CodeUnit(c) ==
    CASE c = " " -> 32 [] c = "\n" -> 10 [] c = "\t" -> 9
      [] c \in Digits -> 48 + DigitVal(c)
      [] c = "A" -> 65 [] c = "B" -> 66 [] c = "P" -> 80 [] c = "X" -> 88
      [] c = "a" -> 97 [] c = "b" -> 98 [] c = "p" -> 112 [] c = "x" -> 120
      [] OTHER -> 45

\* a <= b in the lexicographic order of the code units.
RECURSIVE LexLeq(_, _)
LexLeq(a, b) ==
    IF a = << >> THEN TRUE
    ELSE IF b = << >> THEN FALSE
    ELSE IF CodeUnit(Head(a)) # CodeUnit(Head(b)) THEN CodeUnit(Head(a)) < CodeUnit(Head(b))
    ELSE LexLeq(Tail(a), Tail(b))

\* The update events of every incident: parsed ones ascending, unparsed
\* ones after all parsed ones, unparsed ones in the order Leq of their raw
\* texts.
SortedUpdates(Leq(_, _)) ==
    \A j \in 1..Len(outRows) :
        LET u == outRows[j].updates
        IN \A k \in 1..(Len(u) - 1) :
              /\ (u[k].d.ok /\ u[k + 1].d.ok) => u[k].d.ms <= u[k + 1].d.ms
              /\ ~u[k].d.ok => ~u[k + 1].d.ok
              /\ (~u[k].d.ok /\ ~u[k + 1].d.ok) =>
                    Leq(JsToString(u[k].raw), JsToString(u[k + 1].raw))

\* C6 as stated: the unparsed events are in lexicographic order of their raw
\* texts.
C6_Original == SortedUpdates(LexLeq)

CollationLeq(a, b) == localeCompare(a, b) <= 0

\* C6, amended: the update events of every incident are sorted ascending by
\* parsed timestamp, the unparsed ones come after all parsed ones, and the
\* unparsed ones are in the order of localeCompare on their raw texts (the
\* collation order, in which "a" comes before "B"), not the lexicographic
\* order of the code units.
C6_SortedUpdates == SortedUpdates(CollationLeq)

\* An incident whose candidates were collected out of order: a parsed event
\* after an unparsed one, two parsed events descending, and "B" before "a".
C6_Witness ==
    /\ pc = "done"
    /\ \E j \in 1..Len(outRows) :
          LET u == outRows[j].updates
              c == groups[outRows[j].number].updatedCandidates
          IN /\ Len(u) >= 4
             /\ u[1].d.ok /\ u[2].d.ok /\ u[1].d.ms < u[2].d.ms
             /\ u[Len(u) - 1].raw = Str(<<"a">>)
             /\ u[Len(u)].raw = Str(<<"B">>)
             /\ c[1] = Str(<<"B">>)
             /\ \E k \in 1..(Len(c) - 1) :
                   /\ parseToDate(tz, c[k]).ok /\ parseToDate(tz, c[k + 1]).ok
                   /\ parseToDate(tz, c[k]).ms > parseToDate(tz, c[k + 1]).ms

\* The records of the input that belong to the incident of number num.
RecordsOf(num) == {k \in 1..Len(rows) : numberOf(rows[k], keys) = num}

\* The timestamps of the parsable Opened cells of the records of num.
OpenedTimes(num) ==
    {parseToDate(tz, Get(rows[k], "Opened")).ms :
        k \in {q \in RecordsOf(num) : parseToDate(tz, Get(rows[q], "Opened")).ok}}

\* C7: openedAt of every incident is the least timestamp of the parsable
\* Opened cells of its records, and is absent exactly when none of them is
\* parsable.
C7_OpenedMin ==
    \A j \in 1..Len(outRows) :
        LET o == outRows[j].openedDate
            S == OpenedTimes(outRows[j].number)
        IN /\ o.ok <=> S # {}
           /\ o.ok => (o.ms \in S /\ \A x \in S : o.ms <= x)

\* An incident of two records, the second with the earlier Opened cell, and
\* an incident with an unparsable Opened cell beside a parsable one.
C7_Witness ==
    /\ pc = "done"
    /\ Len(rows) = 2
    /\ Len(outRows) = 1
    /\ parseToDate(tz, rows[1].Opened).ok
    /\ parseToDate(tz, rows[2].Opened).ok
    /\ parseToDate(tz, rows[2].Opened).ms < parseToDate(tz, rows[1].Opened).ms
    /\ outRows[1].openedDate = parseToDate(tz, rows[2].Opened)

\* The Number value of a record as text, with surrounding white space
\* removed.
TrimmedNumber(r) ==
    LET c == Get(r, "Number")
    IN IF c.t = "num" THEN NatToString(c.n)
       ELSE IF c.t = "str" THEN Trim(c.s)
       ELSE << >>

\* C8: when processRows has ended, the numbers of the output rows are the
\* distinct non-empty trimmed Number values of the input, one row each.
C8_OneRowPerNumber ==
    pc \in {"done", "threw"} =>
        LET nums == {TrimmedNumber(rows[k]) : k \in 1..Len(rows)} \ {<< >>}
        IN /\ {data[j][Col("Number", 0, "")] : j \in Built} = nums
           /\ Len(data) = Cardinality(nums)

\* The first non-empty Priority cell among the records of num, in input
\* order; the empty string when all are empty.
FirstNonEmptyPriority(num) ==
    LET filled == {k \in RecordsOf(num) : Truthy(Get(rows[k], "Priority"))}
    IN IF filled = {} THEN EmptyStr ELSE Get(rows[SetMin(filled)], "Priority")

\* C9 as stated: the priority of an incident is the first non-empty Priority
\* value among its records.
C9_Original ==
    \A j \in 1..Len(outRows) :
        outRows[j].priority = FirstNonEmptyPriority(outRows[j].number)

\* C9, amended: the priority of an incident is the Priority value of the
\* first record of the incident in input order, empty when that cell is
\* empty; the Priority values of its later records are ignored, and the
\* row's Priority cell and SLA threshold are those of that value.
C9_FirstRecordPriority ==
    /\ \A j \in 1..Len(outRows) :
          outRows[j].priority =
              OrEmpty(Get(rows[SetMin(RecordsOf(outRows[j].number))], "Priority"))
    /\ \A j \in Built : data[j][Col("Priority", 0, "")] = outRows[j].priority

\* An incident of two records, the first with an empty Priority cell and the
\* second with P1: the incident's priority is empty, and an interval of more
\* than one hour passes under the default threshold.
C9_Witness ==
    /\ pc = "done"
    /\ Len(rows) = 2
    /\ Len(outRows) = 1
    /\ rows[1].Priority = EmptyStr
    /\ rows[2].Priority = P1Cell
    /\ outRows[1].priority = EmptyStr
    /\ \E i \in Slots :
          LET e == EndpointsOf(1, i)
          IN e.prevOk /\ e.currOk /\ e.curr - e.prev > Hour /\ data[1][slaCol(i)] = Y

\* The number of non-blank tokens of a string: the positions of a character
\* that is neither a separator nor white space and has no such character
\* before it without a separator in between.
TokenCount(s) ==
    LET solid(k) == s[k] \notin Separators \cup WhiteSpace
    IN Cardinality({k \in 1..Len(s) :
          /\ solid(k)
          /\ \A m \in 1..(k - 1) :
                solid(m) => \E q \in (m + 1)..(k - 1) : s[q] \in Separators})

\* The number of update candidates of an Updated cell.
CellTokens(c) ==
    IF c.t = "str" THEN TokenCount(c.s)
    ELSE IF c.t = "undef" THEN 0
    ELSE 1

RECURSIVE SumTokens(_)
SumTokens(ks) ==
    IF ks = {} THEN 0
    ELSE LET k == CHOOSE x \in ks : TRUE
         IN CellTokens(Get(rows[k], "Updated")) + SumTokens(ks \ {k})

\* C10: the number of update events of every incident is the number of
\* non-blank tokens, between ';', ',' and newline, of the string Updated
\* cells of its records, plus one for each non-string non-empty one.
C10_TokenCount ==
    \A j \in 1..Len(outRows) :
        Len(outRows[j].updates) = SumTokens(RecordsOf(outRows[j].number))

\* An incident of two records whose Updated cells hold blank parts and
\* several tokens, and an incident with a non-string Updated cell.
C10_Witness ==
    /\ pc = "done"
    /\ Len(rows) = 2
    /\ Len(outRows) = 1
    /\ rows[1].Updated = Str(<<" ", ";", "01-01-2024 10:30", ",", ",", " ", "a", " ">>)
    /\ rows[2].Updated = Num(45292)
    /\ Len(outRows[1].updates) = 3

\* The number of entries of the sequence q that are equal to x.
Occurrences(q, x) == Cardinality({k \in 1..Len(q) : q[k] = x})

\* The number of update candidates of a group that parse to a timestamp.
ParsedCount(cands) == Cardinality({k \in 1..Len(cands) : parseToDate(tz, cands[k]).ok})

\* C11: an update candidate that does not parse is kept as an update event:
\* the events of an incident are its candidates, one each, the unparsed ones
\* after the parsed ones, all of them counted in maxUpdates; in the row, the
\* Updated cell of an unparsed event shows its raw text and the Interval and
\* Made SLA cells of its slot and of the next slot are empty, and every
\* other cell (the fixed columns, the slots of the parsed events, Made SLA)
\* is the one the row has without the unparsed events.  openedAt is the
\* least timestamp of the parsable opened candidates, whatever unparsable
\* ones stand beside them.  processRows only throws on a number that names
\* an inherited property of the groups object.
C11_UnparsedKept ==
    /\ pc = "threw" => numberOf(rows[idx], keys) \in ObjectPrototypeKeys
    /\ \A j \in 1..Len(outRows) :
          LET inc == outRows[j]
              u == inc.updates
              cands == groups[inc.number].updatedCandidates
              opened == groups[inc.number].openedCandidates
              times == {parseToDate(tz, opened[k]).ms :
                          k \in {q \in 1..Len(opened) : parseToDate(tz, opened[q]).ok}}
              P == ParsedCount(cands)
          IN /\ Len(u) = Len(cands)
             /\ \A k \in 1..Len(cands) :
                   Occurrences([q \in 1..Len(u) |-> u[q].raw], cands[k])
                       = Occurrences(cands, cands[k])
             /\ Len(u) <= maxUpdates
             /\ \A i \in 1..Len(u) : u[i].d.ok <=> i <= P
             /\ inc.openedDate.ok <=> times # {}
             /\ inc.openedDate.ok =>
                   (inc.openedDate.ms \in times /\ \A x \in times : inc.openedDate.ms <= x)
    /\ \A j \in Built :
          LET inc == outRows[j]
              u == inc.updates
              P == ParsedCount(groups[inc.number].updatedCandidates)
              without == buildRow(tz, [inc EXCEPT !.updates = SubSeq(u, 1, P)], maxUpdates)
          IN /\ \A i \in (P + 1)..Len(u) :
                   /\ data[j][updCol(i)] = JsToString(u[i].raw)
                   /\ data[j][intervalCol(i)] = << >>
                   /\ data[j][slaCol(i)] = << >>
                   /\ i < maxUpdates => data[j][intervalCol(i + 1)] = << >>
             /\ \A c \in DOMAIN data[j] :
                   (c.i <= P) => data[j][c] = without[c]

\* A finished row of an incident with a parsed update event followed by the
\* unparsed events "a" and "B", shown as text, and with an unparsable opened
\* candidate beside the parsable one that gives openedAt.
C11_Witness ==
    /\ pc = "done"
    /\ \E j \in Built :
          LET inc == outRows[j]
              opened == groups[inc.number].openedCandidates
          IN /\ Len(inc.updates) = 3
             /\ inc.updates[1].d.ok
             /\ data[j][updCol(2)] = <<"a">>
             /\ data[j][updCol(3)] = <<"B">>
             /\ data[j][intervalCol(1)] # << >>
             /\ data[j][intervalCol(2)] = << >>
             /\ Len(opened) = 2
             /\ \E k \in 1..2 : ~parseToDate(tz, opened[k]).ok
             /\ inc.openedDate.ok

\* The text of the Priority cell of the processed row j.
PriorityText(j) == JsToString(data[j][Col("Priority", 0, "")])

\* The processed rows whose trimmed priority starts with P or p and the
\* digit of bucket k.
InBucket(k) ==
    {j \in 1..Len(data) : StartsWithP(DropLeadingSpace(PriorityText(j)), DigitChar(k))}

\* The rows of compAOA below the title and the column titles: the rows of
\* P1 .. P4, then what follows them.
BucketRowOf(k) == compAOA[2 + k]

\* C12: in the compliance table of a download, the row of each bucket Pk
\* counts as total the incidents whose trimmed priority starts, in any case,
\* with Pk, as within those of them with the verdict 'Y' and as exceeding
\* those with the verdict 'N'; no incident lies in two buckets; an incident
\* of no bucket is in no count and not in the grand total, and every
\* incident, bucket or not, has its row in the detail sheet.
C12_Buckets ==
    pc = "downloaded" =>
        LET members == [k \in 1..4 |-> InBucket(k)] IN
        /\ \A k \in 1..4 :
              /\ BucketRowOf(k)[2] = Cardinality(members[k])
              /\ BucketRowOf(k)[3] =
                    Cardinality({j \in members[k] : data[j][MadeSlaCol] = Y})
              /\ BucketRowOf(k)[5] =
                    Cardinality({j \in members[k] : data[j][MadeSlaCol] = N})
        /\ \A k \in 1..4 : \A m \in 1..4 : k # m => members[k] \cap members[m] = {}
        /\ compAOA[7][2] = Cardinality(UNION {members[k] : k \in 1..4})
        /\ Len(sheet1) = 1 + Len(data)
        /\ \A j \in 1..Len(data) :
              /\ sheet1[1 + j][1] = [null |-> FALSE, v |-> data[j][Col("Number", 0, "")]]
              /\ sheet1[1 + j][2].v = data[j][Col("Priority", 0, "")]

\* A download of four incidents: one of priority " p2 x" counted in P2, one
\* of priority "xP1" in no bucket but in the detail sheet, a P1 one within
\* and a P3 one without a verdict, in neither within nor exceeding.
C12_Witness ==
    /\ pc = "downloaded"
    /\ Len(data) = 4
    /\ \E j \in 1..4 : PriorityText(j) = <<" ", "p", "2", " ", "x">>
    /\ \E j \in 1..4 :
          /\ PriorityText(j) = <<"x", "P", "1">>
          /\ sheet1[1 + j][2].v = Str(<<"x", "P", "1">>)
    /\ BucketRowOf(1)[2] = 1 /\ BucketRowOf(1)[3] = 1
    /\ BucketRowOf(2)[2] = 1
    /\ BucketRowOf(3)[2] = 1 /\ BucketRowOf(3)[3] = 0 /\ BucketRowOf(3)[5] = 0
    /\ compAOA[7][2] = 3

\* The text of n tenths of a percent: the whole part, a point, one digit, %.
PercentText(n) == NatToString(n \div 10) \o <<".", DigitChar(n % 10), "%">>

\* n tenths is w / t * 100 rounded to one decimal (the nearest number of
\* tenths, the upper one when two are as near).
RoundedTenths(n, w, t) ==
    /\ 2 * (1000 * w - n * t) <= t
    /\ 2 * (n * t - 1000 * w) < t

\* The grand total: the incidents of the four buckets together.
GrandTotal == BucketRowOf(1)[2] + BucketRowOf(2)[2] + BucketRowOf(3)[2] + BucketRowOf(4)[2]

\* The buckets hold P1(total 2, within 1), P2(total 2, within 2),
\* P3(total 2, within 0), P4(total 0).
ExampleCounts ==
    /\ BucketRowOf(1)[2] = 2 /\ BucketRowOf(1)[3] = 1
    /\ BucketRowOf(2)[2] = 2 /\ BucketRowOf(2)[3] = 2
    /\ BucketRowOf(3)[2] = 2 /\ BucketRowOf(3)[3] = 0
    /\ BucketRowOf(4)[2] = 0

\* C13: when the grand total is positive, the percentage cell of every
\* bucket shows within(bucket) / grand total * 100 rounded to one decimal;
\* with P1(2, 1), P2(2, 2), P3(2, 0), P4(0) the P1 cell is 16.7% and the P2
\* cell 33.3%.
C13_Percentage ==
    (pc = "downloaded" /\ GrandTotal > 0) =>
        /\ LET grand == GrandTotal IN
           \A k \in 1..4 :
              LET within == BucketRowOf(k)[3] IN
              \E n \in 0..1000 :
                  /\ RoundedTenths(n, within, grand)
                  /\ BucketRowOf(k)[4] = PercentText(n)
        /\ ExampleCounts =>
              /\ BucketRowOf(1)[4] = <<"1", "6", ".", "7", "%">>
              /\ BucketRowOf(2)[4] = <<"3", "3", ".", "3", "%">>

\* The download of the example: six incidents, the P1 cell 16.7% where the
\* bucket's own ratio is one half.
C13_Witness ==
    /\ pc = "downloaded"
    /\ ExampleCounts
    /\ GrandTotal = 6
    /\ BucketRowOf(1)[4] = <<"1", "6", ".", "7", "%">>
    /\ BucketRowOf(3)[4] = <<"0", ".", "0", "%">>

\* The flag of bucket k when the cell is filled: 'Y', not compliant, when
\* within / grand total * 100 is below 95, and 'N', compliant, otherwise.
FlagBy95(k) == IF BucketRowOf(k)[3] * 100 < 95 * GrandTotal THEN Y ELSE N

\* C14 as stated: the P1 and P2 rows are flagged not compliant when the
\* percentage is below 95 and the grand total is not zero, and compliant in
\* every other case, a grand total of zero included; the P3 and P4 rows
\* carry no flag.
C14_Original ==
    pc = "downloaded" =>
        /\ \A k \in {1, 2} :
              BucketRowOf(k)[6] = (IF GrandTotal # 0 THEN FlagBy95(k) ELSE N)
        /\ \A k \in {3, 4} : BucketRowOf(k)[6] = << >>

\* C14, amended: when the grand total is not zero the P1 and P2 rows are
\* flagged 'Y' (not compliant) if the percentage is below 95 and 'N'
\* (compliant) otherwise; when the grand total is zero their flag cells are
\* empty; the P3 and P4 rows never carry a flag.
C14_Flag ==
    pc = "downloaded" =>
        /\ \A k \in {1, 2} :
              BucketRowOf(k)[6] = (IF GrandTotal # 0 THEN FlagBy95(k) ELSE << >>)
        /\ \A k \in {3, 4} : BucketRowOf(k)[6] = << >>

\* A download in which every incident is a P1 incident within its SLA: the
\* P1 row is compliant, the P2 row, at 0.0%, is not, the P3 row has no flag.
C14_Witness ==
    /\ pc = "downloaded"
    /\ GrandTotal = 2
    /\ BucketRowOf(1)[4] = <<"1", "0", "0", ".", "0", "%">>
    /\ BucketRowOf(1)[6] = N
    /\ BucketRowOf(2)[6] = Y
    /\ BucketRowOf(3)[6] = << >>

\* The sum of column c over the rows of the four buckets.
BucketSum(c) == BucketRowOf(1)[c] + BucketRowOf(2)[c] + BucketRowOf(3)[c] + BucketRowOf(4)[c]

\* The table ends with the one row named Total, holding the sums of the
\* total, within and exceeding columns and an empty flag cell.
TotalRowSums ==
    /\ Len(compAOA) = 7
    /\ \A k \in 1..4 : compAOA[2 + k][1] = priorities[k]
    /\ compAOA[7][1] = <<"Total">>
    /\ compAOA[7][2] = BucketSum(2)
    /\ compAOA[7][3] = BucketSum(3)
    /\ compAOA[7][5] = BucketSum(5)
    /\ compAOA[7][6] = << >>

\* C15 as stated: the table ends with one Total row holding the sums of the
\* buckets' total, within and exceeding values, with empty percentage and
\* flag cells.
C15_Original ==
    pc = "downloaded" => (TotalRowSums /\ compAOA[7][4] = << >>)

\* C15, amended: the table ends with one Total row holding the sums of the
\* buckets' total, within and exceeding values and an empty flag cell; its
\* percentage cell is not empty: it shows the overall within / total * 100
\* rounded to one decimal, and 0.0% when the total is zero.
C15_TotalRow ==
    pc = "downloaded" =>
        /\ TotalRowSums
        /\ LET total == compAOA[7][2]
               within == compAOA[7][3]
           IN \E n \in 0..1000 :
                 /\ IF total = 0 THEN n = 0 ELSE RoundedTenths(n, within, total)
                 /\ compAOA[7][4] = PercentText(n)

\* The download of the example counts: the Total row holds 6, 3 and, for
\* the incidents over their SLA, 1, and shows 50.0%.
C15_Witness ==
    /\ pc = "downloaded"
    /\ ExampleCounts
    /\ compAOA[7] = << <<"Total">>, 6, 3, <<"5", "0", ".", "0", "%">>, 1, << >> >>

\* The four bucket rows and the Total row are there and hold zero counts.
AllZeroSummary ==
    /\ Len(compAOA) = 7
    /\ \A k \in 3..7 : compAOA[k][2] = 0 /\ compAOA[k][3] = 0 /\ compAOA[k][5] = 0

\* The download has come to its end: the workbook is saved or the error is
\* shown.
DownloadEnded == pc \in {"downloaded", "failed"}

SameLetter(c, d) ==
    \/ c = d
    \/ \E i \in 1..Len(UpperLetters) :
          {c, d} = {UpperLetters[i], LowerLetters[i]}

\* The text s without its white space.
RECURSIVE Squeeze(_)
Squeeze(s) ==
    IF s = << >> THEN << >>
    ELSE IF Head(s) \in WhiteSpace THEN Squeeze(Tail(s))
    ELSE <<Head(s)>> \o Squeeze(Tail(s))

\* The header h is the target t, case and white space ignored.
EqualIgnoringCaseAndSpace(h, t) ==
    LET a == Squeeze(HeaderText(h))
        b == Squeeze(HeaderText(t))
    IN Len(a) = Len(b) /\ \A k \in 1..Len(a) : SameLetter(a[k], b[k])

\* The header h contains the target t, case ignored.
ContainsIgnoringCase(h, t) ==
    LET a == HeaderText(h)
        b == HeaderText(t)
    IN \E off \in 0..(Len(a) - Len(b)) : \A k \in 1..Len(b) : SameLetter(a[off + k], b[k])

\* C17: the column resolved for a target is the first header equal to it
\* ignoring case and white space if there is one, otherwise the first header
\* containing it as a substring ignoring case, otherwise the target's own
\* name; an equal header wins over a containing one that comes earlier.
C17_Resolve ==
    pc = "returned" =>
        LET ks == fnIn.keys
            t == fnIn.target
            equal == {k \in 1..Len(ks) : EqualIgnoringCaseAndSpace(ks[k], t)}
            containing == {k \in 1..Len(ks) : ContainsIgnoringCase(ks[k], t)}
        IN fnOut = (IF equal # {} THEN ks[SetMin(equal)]
                    ELSE IF containing # {} THEN ks[SetMin(containing)]
                    ELSE t)

\* Opened resolved on the headers Opened By, Op ened, opened: the second
\* one, equal but for its white space, wins over the first, which contains
\* the target, and over the third.
C17_Witness ==
    /\ pc = "returned"
    /\ fnIn = [keys |-> <<"Opened By", "Op ened", "opened">>, target |-> "Opened"]
    /\ fnOut = "Op ened"

\* For each target, the headers that do not match it: neither equal to it
\* ignoring case and white space, nor containing it ignoring case.
Unmatching ==
    [t \in Targets |->
        {h \in HeaderNames :
            ~EqualIgnoringCaseAndSpace(h, t) /\ ~ContainsIgnoringCase(h, t)}]

\* No header of the first record matches the target.
Unresolvable(t) ==
    /\ Len(rows) > 0
    /\ DOMAIN rows[1] \subseteq Unmatching[t]

\* processRows is past the resolution of the columns.
KeysResolved == Len(rows) > 0 /\ pc # "start"

\* C18: a field no header matches is read under its default name; no record
\* has a column of that name, so the field is empty for all of them, and
\* processRows goes on: without a Number column no record makes an incident
\* and the headers are the fixed ones; without a Priority or State column
\* every incident has an empty priority or state; without an Opened column
\* no incident has openedAt, the Opened Date cell and the first interval are
\* empty; without an Updated column no incident has an update event and no
\* slot column exists.  The other cells of each row are produced, and
\* processRows throws on nothing but a number that names an inherited
\* property of the groups object.
C18_DefaultColumn ==
    KeysResolved =>
        /\ Unresolvable("Number") =>
              /\ keys.number = "Number"
              /\ outRows = << >> /\ data = << >>
              /\ pc \in {"done", "downloaded"} => headers = FixedCols \o <<MadeSlaCol>>
              /\ pc # "threw"
        /\ Unresolvable("Priority") =>
              /\ keys.priority = "Priority"
              /\ \A j \in 1..Len(outRows) : outRows[j].priority = EmptyStr
        /\ Unresolvable("State") =>
              /\ keys.state = "State"
              /\ \A j \in 1..Len(outRows) : outRows[j].state = EmptyStr
        /\ Unresolvable("Opened") =>
              /\ keys.opened = "Opened"
              /\ \A j \in 1..Len(outRows) : ~outRows[j].openedDate.ok
              /\ \A j \in Built :
                    /\ data[j][Col("Opened Date", 0, "")] = << >>
                    /\ maxUpdates >= 1 => data[j][intervalCol(1)] = << >>
        /\ Unresolvable("Updated") =>
              /\ keys.updated = "Updated"
              /\ \A j \in 1..Len(outRows) : outRows[j].updates = << >>
              /\ maxUpdates = 0
              /\ \A j \in Built : data[j][MadeSlaCol] = << >>
        /\ pc = "threw" => numberOf(rows[idx], keys) \in ObjectPrototypeKeys
        /\ \A j \in Built :
              /\ data[j][Col("Number", 0, "")] = outRows[j].number
              /\ data[j][Col("Priority", 0, "")] = outRows[j].priority
              /\ data[j][Col("State", 0, "")] = outRows[j].state
              /\ \A i \in 1..Len(outRows[j].updates) : data[j][updCol(i)] # << >>
        /\ pc \in {"done", "downloaded"} => Len(data) = Len(outRows)

\* A sheet without an Opened column whose incident has three update events:
\* its row has an empty Opened Date and an empty first interval, and still
\* its priority, its updates and the interval between the first two.
C18_Witness ==
    /\ pc = "done"
    /\ Len(rows) = 2
    /\ DOMAIN rows[1] = {"Number", "Priority", "State", "Updated"}
    /\ Unresolvable("Opened")
    /\ Len(data) = 1
    /\ Len(outRows[1].updates) = 3
    /\ data[1][Col("Opened Date", 0, "")] = << >>
    /\ data[1][Col("Priority", 0, "")] = P1Cell
    /\ data[1][intervalCol(1)] = << >>
    /\ data[1][intervalCol(2)] = <<0, 1, 30, 0>>
    /\ data[1][updCol(3)] = <<"a">>

\* The download has ended in a run after the first one.
EndedAgain == run > 1 /\ DownloadEnded

C20_Interval ==
    pc = "returned" =>
        LET a == IF fnIn < 0 THEN 0 - fnIn ELSE fnIn
            total == fnOut[1] * 86400 + fnOut[2] * 3600 + fnOut[3] * 60 + fnOut[4]
        IN /\ Len(fnOut) = 4
           /\ \A k \in 1..4 : fnOut[k] >= 0
           /\ fnOut[2] < 24 /\ fnOut[3] < 60 /\ fnOut[4] < 60
           /\ total * 1000 <= a /\ a < total * 1000 + 1000
           /\ fnOut = formatInterval(0 - fnIn)

\* formatInterval of minus one day, one hour, one minute and 1.999 seconds
\* has returned 1d 1h 1m 1s.
C20_Witness ==
    /\ pc = "returned"
    /\ fnIn = 0 - 90061999
    /\ fnOut = <<1, 1, 1, 1>>

\* C21: the wall-clock fields formatIso shows for parseToDate(s), s a
\* spreadsheet serial, are the calendar fields of s - 25569 days after
\* 1970-01-01 00:00, whatever the offset of the local time zone: for a whole
\* serial, the date of that day and the time 00:00:00.
C21_SerialFields ==
    pc = "returned" =>
        LET ymd == CivilFromDays(fnIn - 25569)
        IN fnOut = <<ymd[1], ymd[2], ymd[3], 0, 0, 0>>

\* The fields formatIso shows for the date parseToDate has returned.
ShownFields == formatIso(tz, fnOut)

\* C22: a string the strict pattern matches gives, fallback or not, the
\* local wall-clock time of its fields read as day, month, year: the year
\* plus 2000 when below 100, the hour 0 for 12 AM, hour + 12 for 1-11 PM,
\* the hour as it stands without AM/PM, no seconds read as 0; a string only
\* the fallback reads gives the fallback's time; a string neither reads
\* gives null; and parseToDate returns on every string.
C22_StrictFirst ==
    /\ pc = "idle" => ENABLED CallParseString
    /\ pc = "returned" =>
          LET m == fnIn.m
              p == fnIn.p
              am == m.ampm \in {"AM", "am"}
              pm == m.ampm \in {"PM", "pm"}
              year == IF m.year < 100 THEN m.year + 2000 ELSE m.year
              sec == IF m.second = -1 THEN 0 ELSE m.second
              f == ShownFields
          IN IF m.ok
             THEN /\ fnOut.ok
                  /\ f[1] = year /\ f[2] = m.month /\ f[3] = m.day
                  /\ f[5] = m.minute /\ f[6] = sec
                  /\ (am /\ m.hour = 12) => f[4] = 0
                  /\ (pm /\ m.hour \in 1..11) => f[4] = m.hour + 12
                  /\ m.ampm = "" => f[4] = m.hour
             ELSE IF p.ok
                  THEN /\ fnOut.ok
                       /\ f = <<p.year, p.month, p.day, p.hour, p.minute, p.second>>
                  ELSE fnOut = NoDate

\* "1/1/24 12:00 AM", a string the fallback reads too, has given
\* 2024-01-01 00:00:00.
C22_Witness ==
    /\ pc = "returned"
    /\ fnIn.m = Groups(1, 1, 24, 12, 0, -1, "AM")
    /\ fnIn.p.ok
    /\ ShownFields = <<2024, 1, 1, 0, 0, 0>>

\* The duration the 'Interval i' cell of row j displays, in ms.
DisplayedMs(j, i) ==
    LET c == data[j][intervalCol(i)]
    IN (c[1] * 86400 + c[2] * 3600 + c[3] * 60 + c[4]) * 1000

\* C23: in every row, a slot with the verdict 'Y' displays, in its
\* 'Interval i' cell, a duration that does not exceed the threshold of the
\* incident's priority, also when the update lies before the previous
\* endpoint.
C23_PassWithinThreshold ==
    \A j \in Built : \A i \in Slots :
        data[j][slaCol(i)] = Y =>
            DisplayedMs(j, i) <= priorityThresholdMs(outRows[j].priority)

\* The update event k of the incident outRows[j] exists and is parsed.
ParsedEvent(j, k) ==
    k >= 1 /\ k <= Len(outRows[j].updates) /\ outRows[j].updates[k].d.ok

\* The slot i of row j is computed: its 'Interval i' cell is filled.
Computed(j, i) == data[j][intervalCol(i)] # << >>

\* C24: in every row, a computed slot i >= 2 lies between two parsed update
\* events, i-1 and i, and its signed difference is not negative, so that a
\* negative difference is found in slot 1 only; and from the first update
\* event that is missing or not parsed on, no slot is computed.
C24_SortedSlots ==
    \A j \in Built :
        /\ \A i \in Slots :
              LET e == EndpointsOf(j, i)
              IN /\ (Computed(j, i) /\ i >= 2) =>
                       /\ ParsedEvent(j, i - 1) /\ ParsedEvent(j, i)
                       /\ e.curr - e.prev >= 0
                 /\ (Computed(j, i) /\ e.curr - e.prev < 0) => i = 1
        /\ \A k \in Slots :
              ~ParsedEvent(j, k) => \A i \in Slots : i >= k => ~Computed(j, i)

\* A finished row whose first update lies before the opened date, whose
\* slot 2 is computed between two parsed updates given in the other order,
\* and whose last update, not parsed, leaves its slot empty.
C24_Witness ==
    /\ pc = "done"
    /\ \E j \in Built :
          LET n == Len(outRows[j].updates)
          IN /\ n >= 3 /\ n = maxUpdates
             /\ Computed(j, 1)
             /\ EndpointsOf(j, 1).curr < EndpointsOf(j, 1).prev
             /\ Computed(j, 2)
             /\ EndpointsOf(j, 2).curr > EndpointsOf(j, 2).prev
             /\ ~ParsedEvent(j, n) /\ ~Computed(j, n)

\* C25: whenever the preview holds rows (allRows not empty, totalRowsCount
\* above 0), a valid file is selected: once _clearState ran, the callback of
\* a read that handleGenerate started earlier does not bring the rows back.
C25_RowsNeedFile == (allRows > 0 /\ totalRowsCount > 0) => fileValid

\* C26: a selection that handleFileChange accepted is lost only to a file
\* change or to the timeout of a clear confirmed after the selection; the
\* timeout of a clear confirmed before it leaves it alone.
C26_SelectionStays ==
    [][(fileValid /\ ~fileValid') =>
          \/ timers' = timers
          \/ \E t \in timers \ timers' : t.kind = "clear" /\ t.id > chosenAt]_vars

\* C27: in every state 1 <= currentPage <= totalPages, with totalPages =
\* max(1, ceil(filtered rows / pageSize)).
C27_PageInRange == 1 <= currentPage /\ currentPage <= totalPages

\* C28: processing, once true, returns to false; while it is true the
\* Generate and Download buttons are disabled; at most one read started from
\* the buttons is under way at any time.
C28_OneReadAtATime ==
    /\ [](processing => ~ENABLED handleGenerate /\ ~ENABLED startDownload)
    /\ [](Len(reads) <= 1)
    /\ (processing ~> ~processing)

\* The box a pending timeout belongs to: the global box, or a column's.
InputOf(t) == <<t.kind, t.a>>

\* The id of the last timeout of the box.
LastTimerOf(t) ==
    IF t.kind = "global" THEN globalFilterTimer ELSE columnFilterTimers[t.a[1]]

\* The filter the box sets.
FilterOf(t) == IF t.kind = "global" THEN globalFilter ELSE columnFilters[t.a[1]]

\* The timeouts a step ends (fired or cancelled) and those it starts.
Ended == {t \in timers : \A u \in timers' : u.id # t.id}

Started == {n \in timers' : \A t \in timers : t.id # n.id}

\* C29: the filters are debounced.  A typed change is applied only by its
\* timeout, 350 ms after it was typed, and only if it is the last change of
\* its box: an earlier pending change of the same box is cancelled and never
\* applied (a box never has two pending timeouts).  A change in one box
\* cancels no pending change of another box.  Every applied change of a
\* filter sets currentPage to 1.
C29_Debounced ==
    /\ [](\A t, u \in timers : InputOf(t) = InputOf(u) => t = u)
    /\ [][/\ \A t \in Ended :
               IF timerSeq' # timerSeq
               THEN \E n \in Started : InputOf(n) = InputOf(t)
               ELSE /\ t.left = 0
                    /\ t.id = LastTimerOf(t)
                    /\ FilterOf(t)' = t.b
                    /\ currentPage' = 1
          /\ (globalFilter' # globalFilter \/ columnFilters' # columnFilters)
                => currentPage' = 1
          /\ \A n \in Started : n.left = Delay /\ n.id = LastTimerOf(n)'
         ]_vars

\* A change of the Priority box was applied while a change of the Number
\* box was still pending, after three changes were typed.
C29_Witness ==
    /\ timerSeq = 3
    /\ columnFilters["Priority"] = <<"p", "1">>
    /\ currentPage = 1
    /\ \E t \in timers : t.kind = "column" /\ t.a = <<"Number">>

\* C30: the component is on the screen at / or /home only while the flag
\* erp_auth is present; the flag appears only when the timeout of a submit
\* with user 'admin' and password 'admin' runs; a submit with other
\* credentials leaves the flag alone and is what shows the error; the flag
\* goes away only by logout, which ends on /login, and without the flag no
\* path ends on a protected route.
C30_Protected ==
    /\ [](location \in {"/", "/home"} => erp_auth)
    /\ [](showError => location = "/login")
    /\ [][/\ (~erp_auth /\ erp_auth') =>
                \E t \in Ended : /\ t.kind = "login"
                                 /\ t.a = <<"admin">> /\ t.b = <<"admin">>
          /\ (\E t \in Ended : t.a # <<"admin">> \/ t.b # <<"admin">>) =>
                erp_auth' = erp_auth
          /\ (~showError /\ showError') =>
                /\ erp_auth' = erp_auth
                /\ \E t \in Ended : t.a # <<"admin">> \/ t.b # <<"admin">>
          /\ (erp_auth /\ ~erp_auth') =>
                location \in {"/", "/home"} /\ location' = "/login"
         ]_vars

\* Signed in after a refused attempt, the component shown at /home.
C30_Witness == erp_auth /\ location = "/home" /\ timerSeq >= 2

====
